---- MODULE Spec2Model ----
(***************************************************************************)
(* Model of the webexp job orchestration layer (src/webexp/api.py) running *)
(* the export pipeline of src/webexp/cli.py on one thread per job.         *)
(*                                                                         *)
(* One action is one step of a thread between two effects that another     *)
(* thread can observe (a job field written under job.lock, the shared      *)
(* exporter logger's handler list or level, a log call).  Timestamps of    *)
(* events and of the job are left out: no claim reads them.  Every event   *)
(* carries a ghost field "by", the job whose thread executed the call that *)
(* produced it.                                                            *)
(***************************************************************************)
EXTENDS Integers, Sequences, FiniteSets, TLC

(* ---- bounds ---- *)
MaxJobs == 2
MaxAssets == 1
MaxCssUrls == 1

(* ---- levels of the logging module ---- *)
NOTSET == 0
DEBUG == 10
INFO == 20
WARNING == 30
ERROR == 40

JobIds == 1..MaxJobs

(* None, and a value that may be None *)
Null == <<>>

Some(v) == <<v>>

BOOL == {TRUE, FALSE}

(* ExportRequest: the flags of the payload (url and output_name do not      *)
(* influence the control flow).                                            *)
ExportRequest == [remove_badge : BOOL, generate_sitemap : BOOL, debug : BOOL, silent : BOOL]

(* The categories of the manifest, numbered in the order of the dict that   *)
(* scan_html returns and download_assets iterates.                         *)
AssetTypes == <<"html", "css", "js", "images", "media">>

(* A manifest is the sequence of its entries in download order: category by *)
(* category, entry k of a job's manifest having the URL <<category, k>>.   *)
(* Every URL of a modelled manifest has a final path segment.              *)
Manifests ==
    UNION {{m \in [1..n -> 1..Len(AssetTypes)] : \A i \in 1..n, k \in 1..n : i <= k => m[i] <= m[k]}
           : n \in 0..MaxAssets}

AssetType(m, k) == AssetTypes[m[k]]

AssetUrl(j, m, k) == <<j, AssetTypes[m[k]], k>>

(* download_assets, lines 576-589: the path of entry k below the output     *)
(* folder                                                                  *)
RelativePath(m, k) == <<AssetTypes[m[k]], k>>

VARIABLES
    JOB_STORE,      \* api.JOB_STORE: job id -> ExportJob fields
    handlers,       \* exporter_logger.handlers: the jobs whose _ProgressLogHandler is attached
    level,          \* exporter_logger.level
    pc,             \* position of each job's thread in _run_export_job
    previous_level, \* local of _execute_export_with_progress, per thread
    manifest,       \* result of scan_html, per thread
    cursor,         \* index into manifest of the download loop, per thread
    css_left,       \* process_css: raw URLs of the stylesheet still to handle, per thread
    files,          \* per job, the manifest entries whose file is in the output tree
    archive,        \* per job, the entries of the zip file at archive_path, or Null
    exc,            \* message of the exception in flight, per thread, or Null
    returned,       \* ghost: job ids returned by POST /exports
    resp,           \* the last HTTP response sent
    io,             \* ghost: per thread, the fetches and the folder clearing it has done, in order
    dl,             \* download_export: the job of the request that has read archive_path, or Null
    cli_args,       \* main: the parsed command line
    cli_pc,         \* position of the command-line process in main and run_export
    cli_level,      \* logger.level in the command-line process
    cli_previous_level, \* local of run_export
    cli_io,         \* ghost: the fetches and the folder clearing of the command-line process
    cli_stdout,     \* what stdout_log_handler has written
    cli_exc,        \* the exception in flight in the command-line process, or Null
    scan_site,      \* the site a detailed run of scan_html crawls: what it answers to a fetch
    scan_url,       \* scan_html: the argument url
    visited,        \* scan_html: the local visited
    html,           \* scan_html: the local html
    assets,         \* scan_html: the local assets
    stack,          \* the frames of recursive_scan, the innermost last
    page_gets,      \* ghost: the page fetches of recursive_scan, in order, with their outcome
    scan_result,    \* what scan_html has returned, or Null
    rw_call,        \* a call of a function of the classifier or of a rewriter: its name and arguments
    rw_returns      \* what that call and the calls that followed it on its result returned or wrote, in order

(* The state of the API server *)
server_vars == <<JOB_STORE, handlers, level, pc, previous_level, manifest, cursor, css_left, files, archive, exc,
                 returned, resp, io, dl>>

(* The state of the command-line process *)
cli_vars == <<cli_args, cli_pc, cli_level, cli_previous_level, cli_io, cli_stdout, cli_exc>>

(* The state of a detailed run of scan_html *)
crawl_vars == <<scan_site, scan_url, visited, html, assets, stack, page_gets, scan_result>>

(* The state of a call of the classifier or of a rewriter *)
rewrite_vars == <<rw_call, rw_returns>>

(* What no step of the API server touches *)
detached == <<cli_vars, crawl_vars, rewrite_vars>>

vars == <<JOB_STORE, handlers, level, pc, previous_level, manifest, cursor, css_left, files, archive, exc,
          returned, resp, io, dl, detached>>

(* ---- the entries of io ---- *)

(* The url of the payload or of the command line *)
SeedUrl == <<"seed">>

(* requests.get(url): ok is whether a response with a success status came   *)
(* back whole                                                              *)
Get(url, ok) == <<"get", url, ok>>

(* clear_output_folder *)
Clear == <<"clear_output_folder">>

(* scan_html: the page fetches of the crawl, the seed's first *)
Crawl == <<"scan_html">>

(* ---- events ---- *)
StageEvent(name, t) == [type |-> "stage", name |-> name, by |-> t]

LogEvent(levelname, message, t) == [type |-> "log", level |-> levelname, message |-> message, by |-> t]

(* the download event of a fetch that starts, and of one that is complete *)
DownloadStart(source, target, t) ==
    [type |-> "download", source |-> source, target |-> target, status |-> "start", by |-> t]

DownloadComplete(source, t) == [type |-> "download", source |-> source, status |-> "complete", by |-> t]

(* ExportJob.__init__ *)
ExportJob(job_id, request, output_dir) ==
    [id |-> job_id, request |-> request, output_dir |-> output_dir,
     archive_path |-> Null, archive_size |-> Null,
     status |-> "queued", error |-> Null, events |-> <<>>]

(* add_event as a bug would have it: the event inserted at the front *)
add_event_prepend(store, j, event) == [store EXCEPT ![j].events = <<event>> \o @]

(* ExportJob.add_event; _ProgressRecorder.add forwards every event it      *)
(* stores to it through on_event, so recorder.events and job.events are    *)
(* the same sequence.                                                      *)
add_event(store, j, event) == [store EXCEPT ![j].events = Append(@, event)]

(* ExportJob.set_status *)
set_status(store, j, status) == [store EXCEPT ![j].status = status]

(* ExportJob.set_error *)
set_error(store, j, message) == [store EXCEPT ![j].error = Some(message)]

(* ExportJob.set_archive *)
set_archive(store, j, path, size) ==
    [store EXCEPT ![j].archive_path = Some(path), ![j].archive_size = Some(size)]

(* ExportJob.snapshot *)
snapshot(store, j) ==
    [job_id |-> store[j].id,
     status |-> store[j].status,
     events |-> store[j].events,
     error |-> store[j].error,
     file_ready |-> (store[j].archive_path # Null /\ store[j].status = "complete"),
     archive_size |-> store[j].archive_size]

(* _register_job as a bug would have it: the store rebuilt from a stale,    *)
(* empty copy, so that earlier inserts are lost                            *)
_register_job_lost(store, job) == [i \in {job.id} |-> job]

(* _register_job *)
_register_job(store, job) ==
    [i \in DOMAIN store \cup {job.id} |-> IF i = job.id THEN job ELSE store[i]]

(* _get_job: the job, or Null where the code raises the 404 *)
_get_job(store, job_id) == IF job_id \in DOMAIN store THEN Some(store[job_id]) ELSE Null

(* Logger.getEffectiveLevel: a logger whose level is NOTSET takes the level *)
(* of the root logger, WARNING unless configured.                          *)
getEffectiveLevel(lv) == IF lv = NOTSET THEN WARNING ELSE lv

(* _ProgressLogHandler.emit: the events one log record becomes.  A message  *)
(* is its fixed text followed by its arguments: "Downloading %s to %s" is  *)
(* <<"Downloading ", url, path>>.                                          *)
emit(lvl, levelname, message, t) ==
    IF lvl < INFO THEN <<>>
    ELSE <<LogEvent(levelname, message, t)>> \o
         (IF message[1] = "Downloading " THEN <<DownloadStart(message[2], message[3], t)>>
          ELSE IF message[1] = "Downloaded image: " THEN <<DownloadComplete(message[2], t)>>
          ELSE <<>>)

(* Logger.log on exporter_logger by thread t: if the logger is enabled for  *)
(* the level, every attached handler whose level (INFO) admits the record  *)
(* handles it.  The handlers are called one after the other, each adding   *)
(* its events under the lock of its own job; the model delivers to all of  *)
(* them in one step.                                                       *)
LogCall(store, hs, lv, lvl, levelname, message, t) ==
    IF lvl < getEffectiveLevel(lv) THEN store
    ELSE [i \in DOMAIN store |->
            IF i \in hs /\ lvl >= INFO
            THEN [store[i] EXCEPT !.events = @ \o emit(lvl, levelname, message, t)]
            ELSE store[i]]

(* The API server after import: no job, the exporter logger as              *)
(* logging.getLogger made it                                               *)
InitServer ==
    /\ JOB_STORE = <<>>
    /\ handlers = {}
    /\ level = NOTSET
    /\ pc = [j \in JobIds |-> "none"]
    /\ previous_level = [j \in JobIds |-> NOTSET]
    /\ manifest = [j \in JobIds |-> <<>>]
    /\ cursor = [j \in JobIds |-> 0]
    /\ css_left = [j \in JobIds |-> 0]
    /\ files = [j \in JobIds |-> {}]
    /\ archive = [j \in JobIds |-> Null]
    /\ exc = [j \in JobIds |-> Null]
    /\ returned = {}
    /\ resp = [endpoint |-> "none", code |-> 0]
    /\ io = [j \in JobIds |-> <<>>]
    /\ dl = Null

(* The command-line process at the entry of main *)
InitMain ==
    /\ cli_args = Null
    /\ cli_pc = "main"
    /\ cli_level = NOTSET
    /\ cli_previous_level = NOTSET
    /\ cli_io = <<>>
    /\ cli_stdout = <<>>
    /\ cli_exc = Null

(* No detailed run of scan_html *)
NoScan ==
    /\ scan_site = Null
    /\ scan_url = Null
    /\ visited = {}
    /\ html = <<>>
    /\ assets = <<>>
    /\ stack = <<>>
    /\ page_gets = <<>>
    /\ scan_result = Null

(* No call of the classifier or of a rewriter is looked at *)
NoCall ==
    /\ rw_call = Null
    /\ rw_returns = <<>>

Init == InitServer /\ InitMain /\ NoScan /\ NoCall

(* uuid.uuid4().hex: an id no earlier call returned.  Ids are opaque to the  *)
(* program, so the model names them in the order of issue.                 *)
uuid4(issued) == Cardinality(issued) + 1

(* tempfile.mkdtemp(prefix="webexp-{job_id}-") *)
mkdtemp(job_id) == <<"webexp-", job_id>>

(* create_export_job as a bug would have it: the job registered and its     *)
(* thread started before the flags are checked                             *)
create_export_job_late_check(requests, ids) ==
    \E payload \in requests :
        LET job_id == uuid4(returned) IN
        /\ job_id \in ids
        /\ JOB_STORE' = _register_job(JOB_STORE, ExportJob(job_id, payload, mkdtemp(job_id)))
        /\ pc' = [pc EXCEPT ![job_id] = "addHandler"]
        /\ IF payload.debug /\ payload.silent
           THEN resp' = [endpoint |-> "POST /exports", code |-> 400] /\ UNCHANGED returned
           ELSE resp' = [endpoint |-> "POST /exports", code |-> 200, job_id |-> job_id] /\ returned' = returned \cup {job_id}
        /\ UNCHANGED <<handlers, level, previous_level, manifest, cursor, css_left, files, archive, exc,
                       io, dl, detached>>

(* POST /exports, for a payload of the set requests; ids are the job ids     *)
(* the scenario has room for                                               *)
create_export_job(requests, ids) ==
    \E payload \in requests :
        IF payload.debug /\ payload.silent
        THEN /\ resp' = [endpoint |-> "POST /exports", code |-> 400]
             /\ UNCHANGED <<JOB_STORE, handlers, level, pc, previous_level, manifest,
                            cursor, css_left, files, archive, exc, returned, io, dl, detached>>
        ELSE LET job_id == uuid4(returned) IN
             /\ job_id \in ids
             /\ JOB_STORE' = _register_job(JOB_STORE, ExportJob(job_id, payload, mkdtemp(job_id)))
             /\ pc' = [pc EXCEPT ![job_id] = "addHandler"]
             /\ returned' = returned \cup {job_id}
             /\ resp' = [endpoint |-> "POST /exports", code |-> 200, job_id |-> job_id]
             /\ UNCHANGED <<handlers, level, previous_level, manifest, cursor, css_left, files, archive, exc,
                            io, dl, detached>>

(* GET /exports/{job_id}/progress, for a known or an unknown id *)
export_progress ==
    /\ \E job_id \in JobIds :
         /\ resp' = IF _get_job(JOB_STORE, job_id) = Null
                    THEN [endpoint |-> "progress", code |-> 404, job_id |-> job_id]
                    ELSE [endpoint |-> "progress", code |-> 200, job_id |-> job_id,
                          body |-> snapshot(JOB_STORE, job_id)]
    /\ UNCHANGED <<JOB_STORE, handlers, level, pc, previous_level, manifest, cursor, css_left, files, archive,
                   exc, returned, io, dl, detached>>

(* GET /exports/{job_id}/download, lines 201-203: _get_job and the read of  *)
(* job.archive_path, which ends the request with a 404 if there is none.   *)
(* The handler takes no lock, so the thread of the job may run between     *)
(* this read and the read of job.status.                                   *)
download_export ==
    /\ dl = Null
    /\ \E job_id \in JobIds :
         IF _get_job(JOB_STORE, job_id) = Null \/ JOB_STORE[job_id].archive_path = Null
         THEN /\ resp' = [endpoint |-> "download", code |-> 404, job_id |-> job_id]
              /\ UNCHANGED dl
         ELSE /\ dl' = Some(job_id)
              /\ UNCHANGED resp
    /\ UNCHANGED <<JOB_STORE, handlers, level, pc, previous_level, manifest, cursor, css_left, files, archive,
                   exc, returned, io, detached>>

(* download_export_status as a bug would have it: the archive sent as soon  *)
(* as there is one                                                         *)
download_export_status_unchecked ==
    /\ dl # Null
    /\ resp' = [endpoint |-> "download", code |-> 200, job_id |-> dl[1],
                file |-> JOB_STORE[dl[1]].archive_path]
    /\ dl' = Null
    /\ UNCHANGED <<JOB_STORE, handlers, level, pc, previous_level, manifest, cursor, css_left, files, archive,
                   exc, returned, io, detached>>

(* download_export, lines 202-209: the read of job.status, then the 404 or  *)
(* the FileResponse of job.archive_path                                    *)
download_export_status ==
    /\ dl # Null
    /\ resp' = IF JOB_STORE[dl[1]].status # "complete"
               THEN [endpoint |-> "download", code |-> 404, job_id |-> dl[1]]
               ELSE [endpoint |-> "download", code |-> 200, job_id |-> dl[1],
                     file |-> JOB_STORE[dl[1]].archive_path]
    /\ dl' = Null
    /\ UNCHANGED <<JOB_STORE, handlers, level, pc, previous_level, manifest, cursor, css_left, files, archive,
                   exc, returned, io, detached>>

(* ---- the job's thread: _run_export_job ---- *)

Goto(j, label) == pc' = [pc EXCEPT ![j] = label]

request(j) == JOB_STORE[j].request

(* An exception leaves _execute_export_with_progress: its finally clause     *)
(* restores the logger level (line 413), then the except clause of          *)
(* _run_export_job runs.                                                    *)
RaiseInPipeline(j, message) ==
    /\ level' = previous_level[j]
    /\ exc' = [exc EXCEPT ![j] = Some(message)]
    /\ Goto(j, "except_log")

(* line 286 *)
addHandler(j) ==
    /\ pc[j] = "addHandler"
    /\ handlers' = handlers \cup {j}
    /\ Goto(j, "set_running")
    /\ UNCHANGED <<JOB_STORE, level, previous_level, manifest, cursor, css_left, files, archive, exc,
                   returned, resp, io, dl, detached>>

(* line 288 *)
set_running(j) ==
    /\ pc[j] = "set_running"
    /\ JOB_STORE' = set_status(JOB_STORE, j, "running")
    /\ Goto(j, "stage_start")
    /\ UNCHANGED <<handlers, level, previous_level, manifest, cursor, css_left, files, archive, exc,
                   returned, resp, io, dl, detached>>

(* StageSteps as a bug would have it: a milestone under another name *)
StageSteps_renamed ==
    {<<"stage_start", "started", "setLevel">>,
     <<"stage_validate_url", "validate_url", "check_url">>,
     <<"stage_downloading", "downloading", "download_assets">>,
     <<"stage_removing_badge", "removing_badge", "remove_badge_from_output">>,
     <<"stage_generating_sitemap", "generating_sitemap", "generate_sitemap">>,
     <<"stage_sitemap_generated", "sitemap_generated", "stage_ready_for_archive">>,
     <<"stage_ready_for_archive", "ready_for_archive", "restore_level">>,
     <<"stage_zipping", "zipping", "write_archive">>,
     <<"stage_zipped", "zipped", "stage_complete">>,
     <<"stage_complete", "complete", "embed_progress">>,
     <<"stage_error", "error", "job_set_error">>}

(* The recorder.add("stage", name=...) calls that nothing but local work     *)
(* precedes: the position, the stage name and the position after it.        *)
StageSteps ==
    {<<"stage_start", "start", "setLevel">>,
     <<"stage_validate_url", "validate_url", "check_url">>,
     <<"stage_downloading", "downloading", "download_assets">>,
     <<"stage_removing_badge", "removing_badge", "remove_badge_from_output">>,
     <<"stage_generating_sitemap", "generating_sitemap", "generate_sitemap">>,
     <<"stage_sitemap_generated", "sitemap_generated", "stage_ready_for_archive">>,
     <<"stage_ready_for_archive", "ready_for_archive", "restore_level">>,
     <<"stage_zipping", "zipping", "write_archive">>,
     <<"stage_zipped", "zipped", "stage_complete">>,
     <<"stage_complete", "complete", "embed_progress">>,
     <<"stage_error", "error", "job_set_error">>}

(* lines 289, 367, 392, 397, 402, 404, 406, 306, 321, 322, 329 *)
stage(j) ==
    \E s \in StageSteps :
        /\ pc[j] = s[1]
        /\ JOB_STORE' = add_event(JOB_STORE, j, StageEvent(s[2], j))
        /\ Goto(j, s[3])
        /\ UNCHANGED <<handlers, level, previous_level, manifest, cursor, css_left, files, archive, exc,
                       returned, resp, io, dl, detached>>

(* lines 350-364 of _execute_export_with_progress *)
setLevel(j) ==
    /\ pc[j] = "setLevel"
    /\ IF request(j).debug /\ request(j).silent
       THEN /\ exc' = [exc EXCEPT ![j] = Some("Invalid configuration")]
            /\ Goto(j, "except_log")
            /\ UNCHANGED <<JOB_STORE, level, previous_level>>
       ELSE /\ previous_level' = [previous_level EXCEPT ![j] = level]
            /\ IF request(j).silent
               THEN level' = ERROR /\ UNCHANGED JOB_STORE
               ELSE IF request(j).debug
               THEN /\ JOB_STORE' = LogCall(JOB_STORE, handlers, level, INFO, "info",
                                            <<"Debug mode enabled.", Null>>, j)
                    /\ level' = DEBUG
               ELSE level' = INFO /\ UNCHANGED JOB_STORE
            /\ Goto(j, "stage_validate_url")
            /\ UNCHANGED exc
    /\ UNCHANGED <<handlers, manifest, cursor, css_left, files, archive, returned, resp, io, dl, detached>>

(* check_url as a bug would have it: the failed validation is swallowed and *)
(* the pipeline goes on                                                    *)
check_url_swallowed(j) ==
    /\ pc[j] = "check_url"
    /\ JOB_STORE' = add_event(JOB_STORE, j, StageEvent("clear_output", j))
    /\ \E ok \in BOOL : io' = [io EXCEPT ![j] = Append(@, Get(SeedUrl, ok))]
    /\ Goto(j, "clear_output_folder")
    /\ UNCHANGED <<handlers, level, previous_level, manifest, cursor, css_left, files, archive, exc,
                   returned, resp, dl, detached>>

(* lines 368-377: check_url and check_output_path_exists, then the           *)
(* clear_output stage event; check_url raises ValueError for an unreachable *)
(* seed, a status other than 200 or a page without Webflow indicators.      *)
check_url(j) ==
    /\ pc[j] = "check_url"
    /\ \/ /\ JOB_STORE' = add_event(JOB_STORE, j, StageEvent("clear_output", j))
          /\ io' = [io EXCEPT ![j] = Append(@, Get(SeedUrl, TRUE))]
          /\ Goto(j, "clear_output_folder")
          /\ UNCHANGED <<level, exc>>
       \/ /\ RaiseInPipeline(j, "Invalid URL")
          /\ io' = [io EXCEPT ![j] = Append(@, Get(SeedUrl, FALSE))]
          /\ UNCHANGED JOB_STORE
    /\ UNCHANGED <<handlers, previous_level, manifest, cursor, css_left, files, archive, returned, resp,
                   dl, detached>>

(* lines 378-380: clear_output_folder (an OSError propagates), then the      *)
(* scanning stage event                                                     *)
clear_output_folder(j) ==
    /\ pc[j] = "clear_output_folder"
    /\ io' = [io EXCEPT ![j] = Append(@, Clear)]
    /\ \/ /\ JOB_STORE' = add_event(JOB_STORE, j, StageEvent("scanning", j))
          /\ Goto(j, "scan_html")
          /\ UNCHANGED <<level, exc>>
       \/ /\ RaiseInPipeline(j, "OSError")
          /\ UNCHANGED JOB_STORE
    /\ UNCHANGED <<handlers, previous_level, manifest, cursor, css_left, files, archive, returned, resp,
                   dl, detached>>

(* lines 381-390: scan_html returns the manifest (it logs at debug level    *)
(* only, which no progress handler records), then the scanned stage event; *)
(* it catches the exceptions of requests only, so that another one (urljoin *)
(* raises ValueError for a malformed href) propagates.                      *)
scan_html(j, manifests) ==
    /\ pc[j] = "scan_html"
    /\ io' = [io EXCEPT ![j] = Append(@, Crawl)]
    /\ \/ /\ \E m \in manifests :
               /\ manifest' = [manifest EXCEPT ![j] = m]
               /\ cursor' = [cursor EXCEPT ![j] = 1]
          /\ JOB_STORE' = add_event(JOB_STORE, j, StageEvent("scanned", j))
          /\ Goto(j, "stage_downloading")
          /\ UNCHANGED <<level, exc>>
       \/ /\ RaiseInPipeline(j, "ValueError")
          /\ UNCHANGED <<JOB_STORE, manifest, cursor>>
    /\ UNCHANGED <<handlers, previous_level, css_left, files, archive, returned, resp, dl, detached>>

(* lines 396, 401, 406 of _execute_export_with_progress: the position after  *)
(* the downloaded stage event, and after the badge step                     *)
AfterBadge(j) ==
    IF request(j).generate_sitemap THEN "stage_generating_sitemap" ELSE "stage_ready_for_archive"

(* AfterDownloaded as a bug would have it: the badge step run whatever the  *)
(* flag                                                                    *)
AfterDownloaded_always_badge(j) == "stage_removing_badge"

AfterDownloaded(j) ==
    IF request(j).remove_badge THEN "stage_removing_badge" ELSE AfterBadge(j)

(* download_assets, the loop of lines 573-594: the "Downloading %s to %s"    *)
(* log call of the next entry; when the loop is over, the downloaded stage  *)
(* event (api.py line 394)                                                  *)
download_assets(j) ==
    /\ pc[j] = "download_assets"
    /\ IF cursor[j] <= Len(manifest[j])
       THEN /\ JOB_STORE' = LogCall(JOB_STORE, handlers, level, INFO, "info",
                                    <<"Downloading ", AssetUrl(j, manifest[j], cursor[j]),
                                      RelativePath(manifest[j], cursor[j])>>, j)
            /\ Goto(j, "download_file")
            /\ UNCHANGED cursor
       ELSE /\ JOB_STORE' = add_event(JOB_STORE, j, StageEvent("downloaded", j))
            /\ Goto(j, AfterDownloaded(j))
            /\ cursor' = [cursor EXCEPT ![j] = 1]
    /\ UNCHANGED <<handlers, level, previous_level, manifest, css_left, files, archive, exc,
                   returned, resp, io, dl, detached>>

(* download_file, lines 558-571: the fetch succeeds and the file is written  *)
(* (a stylesheet goes on to process_css; process_html logs at debug level   *)
(* only); or requests raises and the failure is logged, either in get or   *)
(* raise_for_status, before the file is opened, or in iter_content, the     *)
(* response being streamed, when the file is open and holds what came       *)
(* before; or another exception (OSError, a decoding error of process_html) *)
(* propagates.                                                              *)
download_file(j) ==
    /\ pc[j] = "download_file"
    /\ \/ /\ files' = [files EXCEPT ![j] = @ \cup {cursor[j]}]
          /\ io' = [io EXCEPT ![j] = Append(@, Get(AssetUrl(j, manifest[j], cursor[j]), TRUE))]
          /\ IF AssetType(manifest[j], cursor[j]) = "css"
             THEN Goto(j, "process_css") /\ UNCHANGED cursor
             ELSE Goto(j, "download_assets") /\ cursor' = [cursor EXCEPT ![j] = @ + 1]
          /\ UNCHANGED <<JOB_STORE, level, exc>>
       \/ /\ JOB_STORE' = LogCall(JOB_STORE, handlers, level, ERROR, "error",
                                  <<"Failed to download asset ", AssetUrl(j, manifest[j], cursor[j])>>, j)
          /\ io' = [io EXCEPT ![j] = Append(@, Get(AssetUrl(j, manifest[j], cursor[j]), FALSE))]
          /\ \/ UNCHANGED files
             \/ files' = [files EXCEPT ![j] = @ \cup {cursor[j]}]
          /\ cursor' = [cursor EXCEPT ![j] = @ + 1]
          /\ Goto(j, "download_assets")
          /\ UNCHANGED <<level, exc>>
       \/ /\ RaiseInPipeline(j, "OSError")
          /\ io' = [io EXCEPT ![j] = Append(@, Get(AssetUrl(j, manifest[j], cursor[j]), TRUE))]
          /\ UNCHANGED <<JOB_STORE, files, cursor>>
    /\ UNCHANGED <<handlers, previous_level, manifest, css_left, archive, returned, resp, dl, detached>>

(* process_css, lines 694-705: the stylesheet is read (text that is not      *)
(* UTF-8 raises, and download_file catches the exceptions of requests       *)
(* only), the "Processing CSS file" log call, the scan for raw URLs and, if *)
(* there are any, the "Found %d asset URLs" log call; n is the number of    *)
(* raw URLs that are platform assets with a file name and no file under     *)
(* images/ yet.                                                             *)
process_css(j) ==
    /\ pc[j] = "process_css"
    /\ \/ /\ JOB_STORE' = LogCall(JOB_STORE, handlers, level, INFO, "info",
                                  <<"Processing CSS file: ", RelativePath(manifest[j], cursor[j])>>, j)
          /\ \E n \in 0..MaxCssUrls : css_left' = [css_left EXCEPT ![j] = n]
          /\ Goto(j, "process_css_found")
          /\ UNCHANGED <<level, exc>>
       \/ /\ RaiseInPipeline(j, "UnicodeDecodeError")
          /\ UNCHANGED <<JOB_STORE, css_left>>
    /\ UNCHANGED <<handlers, previous_level, manifest, cursor, files, archive, returned, resp, io, dl, detached>>

process_css_found(j) ==
    /\ pc[j] = "process_css_found"
    /\ IF css_left[j] > 0
       THEN /\ JOB_STORE' = LogCall(JOB_STORE, handlers, level, INFO, "info",
                                    <<"Found %d asset URLs in CSS file ", css_left[j]>>, j)
            /\ Goto(j, "process_css_image")
            /\ UNCHANGED cursor
       ELSE /\ cursor' = [cursor EXCEPT ![j] = @ + 1]
            /\ Goto(j, "download_assets")
            /\ UNCHANGED JOB_STORE
    /\ UNCHANGED <<handlers, level, previous_level, manifest, css_left, files, archive, exc,
                   returned, resp, io, dl, detached>>

(* process_css, lines 707-742: the image of one raw URL is fetched and the   *)
(* success or the failure logged; after the last, the stylesheet is         *)
(* rewritten in place.                                                      *)
process_css_image(j) ==
    /\ pc[j] = "process_css_image"
    /\ IF css_left[j] > 0
       THEN /\ LET url == <<j, "cssimage", cursor[j], css_left[j]>> IN
               \/ /\ JOB_STORE' = LogCall(JOB_STORE, handlers, level, INFO, "info",
                                          <<"Downloaded image: ", url>>, j)
                  /\ io' = [io EXCEPT ![j] = Append(@, Get(url, TRUE))]
               \/ /\ JOB_STORE' = LogCall(JOB_STORE, handlers, level, ERROR, "error",
                                          <<"Failed to download image ", url>>, j)
                  /\ io' = [io EXCEPT ![j] = Append(@, Get(url, FALSE))]
            /\ css_left' = [css_left EXCEPT ![j] = @ - 1]
            /\ UNCHANGED <<cursor, pc>>
       ELSE /\ cursor' = [cursor EXCEPT ![j] = @ + 1]
            /\ Goto(j, "download_assets")
            /\ UNCHANGED <<JOB_STORE, css_left, io>>
    /\ UNCHANGED <<handlers, level, previous_level, manifest, files, archive, exc, returned, resp, dl, detached>>

(* The next .js file of the output's js/ folder at or after entry k *)
NextJs(j, k) ==
    LET js == {i \in files[j] : i >= k /\ AssetType(manifest[j], i) = "js"}
    IN  IF js = {} THEN Len(manifest[j]) + 1 ELSE CHOOSE i \in js : \A i2 \in js : i <= i2

(* remove_badge_from_output, lines 744-762, then the badge_removed stage     *)
(* event (api.py line 399): a .js file that holds the badge marker is       *)
(* logged and patched; reading a file that is not UTF-8 raises.             *)
remove_badge_from_output(j) ==
    /\ pc[j] = "remove_badge_from_output"
    /\ LET k == NextJs(j, cursor[j])
       IN  IF k <= Len(manifest[j])
           THEN \/ /\ \/ JOB_STORE' = LogCall(JOB_STORE, handlers, level, INFO, "info",
                                              <<"Removing Webflow badge from ", RelativePath(manifest[j], k)>>, j)
                      \/ UNCHANGED JOB_STORE
                   /\ cursor' = [cursor EXCEPT ![j] = k + 1]
                   /\ UNCHANGED <<pc, level, exc>>
                \/ /\ RaiseInPipeline(j, "UnicodeDecodeError")
                   /\ UNCHANGED <<JOB_STORE, cursor>>
           ELSE /\ JOB_STORE' = add_event(JOB_STORE, j, StageEvent("badge_removed", j))
                /\ Goto(j, AfterBadge(j))
                /\ UNCHANGED <<cursor, level, exc>>
    /\ UNCHANGED <<handlers, previous_level, manifest, css_left, files, archive, returned, resp, io, dl, detached>>

(* generate_sitemap, lines 764-778: the file is written and the fact logged, *)
(* or the write raises OSError                                              *)
generate_sitemap(j) ==
    /\ pc[j] = "generate_sitemap"
    /\ \/ /\ JOB_STORE' = LogCall(JOB_STORE, handlers, level, INFO, "info",
                                  <<"Sitemap generated at ", JOB_STORE[j].output_dir>>, j)
          /\ Goto(j, "stage_sitemap_generated")
          /\ UNCHANGED <<level, exc>>
       \/ /\ RaiseInPipeline(j, "OSError")
          /\ UNCHANGED JOB_STORE
    /\ UNCHANGED <<handlers, previous_level, manifest, cursor, css_left, files, archive, returned, resp, io, dl, detached>>

(* line 413, on the return of _execute_export_with_progress *)
restore_level(j) ==
    /\ pc[j] = "restore_level"
    /\ level' = previous_level[j]
    /\ Goto(j, "stage_zipping")
    /\ UNCHANGED <<JOB_STORE, handlers, previous_level, manifest, cursor, css_left, files, archive, exc,
                   returned, resp, io, dl, detached>>

(* The zip file of a job: the files of the output tree in it, with          *)
(* manifest.json, and whether progress.json is in it                       *)
ZipFile(tree, progress) == [files |-> tree, progress |-> progress]

(* os.path.getsize of the archive, counted in entries *)
getsize(zf) == Cardinality(zf.files) + 1 + (IF zf.progress THEN 1 ELSE 0)

(* lines 307-319: the archive of the output tree and manifest.json is        *)
(* written and job.set_archive called, or writing it raises                 *)
write_archive(j) ==
    /\ pc[j] = "write_archive"
    /\ \/ /\ archive' = [archive EXCEPT ![j] = Some(ZipFile(files[j], FALSE))]
          /\ JOB_STORE' = set_archive(JOB_STORE, j, <<JOB_STORE[j].output_dir, "archive.zip">>,
                                      getsize(ZipFile(files[j], FALSE)))
          /\ Goto(j, "stage_zipped")
          /\ UNCHANGED exc
       \/ /\ exc' = [exc EXCEPT ![j] = Some("OSError")]
          /\ Goto(j, "except_log")
          /\ UNCHANGED <<JOB_STORE, archive>>
    /\ UNCHANGED <<handlers, level, previous_level, manifest, cursor, css_left, files,
                   returned, resp, io, dl, detached>>

(* embed_progress as a bug would have it: the job set complete before       *)
(* progress.json is embedded, which may still raise                        *)
embed_progress_early(j) ==
    /\ pc[j] = "embed_progress"
    /\ JOB_STORE' = set_status(JOB_STORE, j, "complete")
    /\ \/ /\ archive' = [archive EXCEPT ![j] = Some([@[1] EXCEPT !.progress = TRUE])]
          /\ Goto(j, "removeHandler")
          /\ UNCHANGED exc
       \/ /\ exc' = [exc EXCEPT ![j] = Some("OSError")]
          /\ Goto(j, "except_log")
          /\ UNCHANGED archive
    /\ UNCHANGED <<handlers, level, previous_level, manifest, cursor, css_left, files,
                   returned, resp, io, dl, detached>>

(* lines 323-325: progress.json is added to the archive and the job set      *)
(* complete, or reopening the archive raises                                *)
embed_progress(j) ==
    /\ pc[j] = "embed_progress"
    /\ \/ /\ archive' = [archive EXCEPT ![j] = Some([@[1] EXCEPT !.progress = TRUE])]
          /\ JOB_STORE' = set_status(JOB_STORE, j, "complete")
          /\ Goto(j, "removeHandler")
          /\ UNCHANGED exc
       \/ /\ exc' = [exc EXCEPT ![j] = Some("OSError")]
          /\ Goto(j, "except_log")
          /\ UNCHANGED <<JOB_STORE, archive>>
    /\ UNCHANGED <<handlers, level, previous_level, manifest, cursor, css_left, files,
                   returned, resp, io, dl, detached>>

(* lines 326-328 *)
except_log(j) ==
    /\ pc[j] = "except_log"
    /\ JOB_STORE' = add_event(JOB_STORE, j, LogEvent("error", <<exc[j][1], Null>>, j))
    /\ Goto(j, "stage_error")
    /\ UNCHANGED <<handlers, level, previous_level, manifest, cursor, css_left, files, archive, exc,
                   returned, resp, io, dl, detached>>

(* line 330 *)
job_set_error(j) ==
    /\ pc[j] = "job_set_error"
    /\ JOB_STORE' = set_error(JOB_STORE, j, exc[j][1])
    /\ Goto(j, "job_set_status_error")
    /\ UNCHANGED <<handlers, level, previous_level, manifest, cursor, css_left, files, archive, exc,
                   returned, resp, io, dl, detached>>

(* line 331 as a bug would have it: the pipeline started again after a      *)
(* failure instead of the job being set to error                           *)
job_set_status_error_retry(j) ==
    /\ pc[j] = "job_set_status_error"
    /\ Goto(j, "stage_validate_url")
    /\ UNCHANGED <<JOB_STORE, handlers, level, previous_level, manifest, cursor, css_left, files, archive,
                   exc, returned, resp, io, dl, detached>>

(* line 331 *)
job_set_status_error(j) ==
    /\ pc[j] = "job_set_status_error"
    /\ JOB_STORE' = set_status(JOB_STORE, j, "error")
    /\ Goto(j, "removeHandler")
    /\ UNCHANGED <<handlers, level, previous_level, manifest, cursor, css_left, files, archive, exc,
                   returned, resp, io, dl, detached>>

(* line 333 *)
removeHandler(j) ==
    /\ pc[j] = "removeHandler"
    /\ handlers' = handlers \ {j}
    /\ Goto(j, "done")
    /\ UNCHANGED <<JOB_STORE, level, previous_level, manifest, cursor, css_left, files, archive, exc,
                   returned, resp, io, dl, detached>>

(* The steps of the pipeline that handle one manifest entry or one .js      *)
(* file: a job with an empty manifest and without remove_badge takes none  *)
(* of them.                                                                *)
per_file_steps(j) ==
    \/ download_file(j)
    \/ process_css(j)
    \/ process_css_found(j)
    \/ process_css_image(j)
    \/ remove_badge_from_output(j)

(* The other steps of the thread *)
_run_export_job(j, manifests) ==
    \/ addHandler(j)
    \/ set_running(j)
    \/ stage(j)
    \/ setLevel(j)
    \/ check_url(j)
    \/ clear_output_folder(j)
    \/ scan_html(j, manifests)
    \/ download_assets(j)
    \/ generate_sitemap(j)
    \/ restore_level(j)
    \/ write_archive(j)
    \/ embed_progress(j)
    \/ except_log(j)
    \/ job_set_error(j)
    \/ job_set_status_error(j)
    \/ removeHandler(j)

(* ---- the command-line process: main and run_export ---- *)

(* The flags of the command line (--url and --output do not influence the   *)
(* control flow)                                                           *)
CliArgs == [remove_badge : BOOL, generate_sitemap : BOOL, single_page : BOOL, debug : BOOL, silent : BOOL]

(* An exception: its class and its message *)
Exception(class, message) == [class |-> class, message |-> message]

(* Logger.log on logger in the command-line process, whose one handler is   *)
(* stdout_log_handler, of level INFO                                       *)
CliLogCall(out, lv, lvl, message) ==
    IF lvl >= getEffectiveLevel(lv) /\ lvl >= INFO THEN Append(out, message) ELSE out

(* main, lines 276-302 *)
parse_args ==
    /\ cli_pc = "main"
    /\ \E args \in CliArgs : cli_args' = Some(args)
    /\ cli_pc' = "run_export"
    /\ UNCHANGED <<cli_level, cli_previous_level, cli_io, cli_stdout, cli_exc>>
    /\ UNCHANGED <<JOB_STORE, handlers, level, pc, previous_level, manifest, cursor, css_left, files, archive,
                   exc, returned, resp, io, dl, crawl_vars, rewrite_vars>>

(* run_export, lines 218-228: the check of the flags, which raises before    *)
(* the try statement, then the level of the logger                          *)
run_export ==
    /\ cli_pc = "run_export"
    /\ LET args == cli_args[1] IN
       IF args.debug /\ args.silent
       THEN /\ cli_exc' = Some(Exception("ValueError", "Invalid configuration"))
            /\ cli_pc' = "main_except"
            /\ UNCHANGED <<cli_level, cli_previous_level, cli_stdout>>
       ELSE /\ cli_previous_level' = cli_level
            /\ IF args.silent
               THEN cli_level' = ERROR /\ UNCHANGED cli_stdout
               ELSE IF args.debug
               THEN /\ cli_stdout' = CliLogCall(cli_stdout, cli_level, INFO, "Debug mode enabled.")
                    /\ cli_level' = DEBUG
               ELSE cli_level' = INFO /\ UNCHANGED cli_stdout
            /\ cli_pc' = "check_url"
            /\ UNCHANGED cli_exc
    /\ UNCHANGED <<cli_args, cli_io>>
    /\ UNCHANGED <<JOB_STORE, handlers, level, pc, previous_level, manifest, cursor, css_left, files, archive,
                   exc, returned, resp, io, dl, crawl_vars, rewrite_vars>>

(* run_export, line 233: check_url fetches the seed and raises ValueError    *)
(* for an unreachable seed, a status other than 200 or a page without       *)
(* Webflow indicators                                                       *)
cli_check_url ==
    /\ cli_pc = "check_url"
    /\ \/ /\ cli_io' = Append(cli_io, Get(SeedUrl, TRUE))
          /\ cli_pc' = "check_output_path_exists"
          /\ UNCHANGED cli_exc
       \/ /\ cli_io' = Append(cli_io, Get(SeedUrl, FALSE))
          /\ cli_exc' = Some(Exception("ValueError", "Invalid URL"))
          /\ cli_pc' = "finally"
    /\ UNCHANGED <<cli_args, cli_level, cli_previous_level, cli_stdout>>
    /\ UNCHANGED <<JOB_STORE, handlers, level, pc, previous_level, manifest, cursor, css_left, files, archive,
                   exc, returned, resp, io, dl, crawl_vars, rewrite_vars>>

(* run_export, lines 235-237: main passes ensure_parent_dir=False, so a      *)
(* missing parent folder of the output raises ValueError                    *)
cli_check_output_path_exists ==
    /\ cli_pc = "check_output_path_exists"
    /\ \/ /\ cli_pc' = "clear_output_folder"
          /\ UNCHANGED cli_exc
       \/ /\ cli_exc' = Some(Exception("ValueError", "Output path does not exist"))
          /\ cli_pc' = "finally"
    /\ UNCHANGED <<cli_args, cli_level, cli_previous_level, cli_io, cli_stdout>>
    /\ UNCHANGED <<JOB_STORE, handlers, level, pc, previous_level, manifest, cursor, css_left, files, archive,
                   exc, returned, resp, io, dl, crawl_vars, rewrite_vars>>

(* run_export, line 239: clear_output_folder, which lets an OSError through *)
cli_clear_output_folder ==
    /\ cli_pc = "clear_output_folder"
    /\ cli_io' = Append(cli_io, Clear)
    /\ \/ /\ cli_pc' = "scan_html"
          /\ UNCHANGED cli_exc
       \/ /\ cli_exc' = Some(Exception("OSError", "OSError"))
          /\ cli_pc' = "finally"
    /\ UNCHANGED <<cli_args, cli_level, cli_previous_level, cli_stdout>>
    /\ UNCHANGED <<JOB_STORE, handlers, level, pc, previous_level, manifest, cursor, css_left, files, archive,
                   exc, returned, resp, io, dl, crawl_vars, rewrite_vars>>

(* run_export, line 242: scan_html(url, follow_internal_links=...) is a call *)
(* of a function that takes url alone (line 388), so binding the arguments  *)
(* raises TypeError before the body runs.                                   *)
cli_scan_html ==
    /\ cli_pc = "scan_html"
    /\ cli_exc' = Some(Exception("TypeError", "unexpected keyword argument 'follow_internal_links'"))
    /\ cli_pc' = "finally"
    /\ UNCHANGED <<cli_args, cli_level, cli_previous_level, cli_io, cli_stdout>>
    /\ UNCHANGED <<JOB_STORE, handlers, level, pc, previous_level, manifest, cursor, css_left, files, archive,
                   exc, returned, resp, io, dl, crawl_vars, rewrite_vars>>

(* run_export, lines 268-270, with the exception still in flight: main       *)
(* catches ValueError alone (line 316), another exception leaves main.      *)
cli_finally ==
    /\ cli_pc = "finally"
    /\ cli_level' = cli_previous_level
    /\ cli_pc' = IF cli_exc[1].class = "ValueError" THEN "main_except" ELSE "traceback"
    /\ UNCHANGED <<cli_args, cli_previous_level, cli_io, cli_stdout, cli_exc>>
    /\ UNCHANGED <<JOB_STORE, handlers, level, pc, previous_level, manifest, cursor, css_left, files, archive,
                   exc, returned, resp, io, dl, crawl_vars, rewrite_vars>>

(* main, lines 316-317 *)
main_except ==
    /\ cli_pc = "main_except"
    /\ cli_stdout' = CliLogCall(cli_stdout, cli_level, ERROR, cli_exc[1].message)
    /\ cli_exc' = Null
    /\ cli_pc' = "exit"
    /\ UNCHANGED <<cli_args, cli_level, cli_previous_level, cli_io>>
    /\ UNCHANGED <<JOB_STORE, handlers, level, pc, previous_level, manifest, cursor, css_left, files, archive,
                   exc, returned, resp, io, dl, crawl_vars, rewrite_vars>>

main ==
    \/ parse_args
    \/ run_export
    \/ cli_check_url
    \/ cli_check_output_path_exists
    \/ cli_clear_output_folder
    \/ cli_scan_html
    \/ cli_finally
    \/ main_except

(* ---- the crawl in detail: scan_html and recursive_scan ---- *)

MaxPages == 2
MaxLinks == 2
MaxRefs == 1

(* A host name, as the pieces that the suffix test of is_webflow_asset_url  *)
(* tells apart: "site.webflow.io" is <<"site.", "webflow.io">>.  All are   *)
(* in lower case.                                                          *)
CustomHost == <<"www.example.com">>

WebflowHost == <<"site.", "webflow.io">>

CdnHost == <<"cdn.prod.", "website-files.com">>

OtherHost == <<"fonts.example.org">>

Hosts == <<CustomHost, WebflowHost, CdnHost, OtherHost>>

WEBFLOW_ASSET_HOST_SUFFIXES == {"website-files.com", "webflow.io", "webflow.com"}

WEBFLOW_ASSET_HOSTS == {<<"d3e54v103j8qbb.cloudfront.net">>}

(* A URL as text: the scheme ("" in a reference without one), the host      *)
(* (empty in a relative reference), the folders of the path and its last   *)
(* segment, here the number of a page or of a file, whether a "/" follows  *)
(* the path, whether a query string ends the text, and whether the host is *)
(* written with userinfo before it and with a port after it.               *)
Url(scheme, host, path, slash, query) ==
    [scheme |-> scheme, host |-> host, dir |-> <<>>, path |-> path, slash |-> slash, query |-> query,
     userinfo |-> FALSE, port |-> FALSE]

Paths == 0..(MaxPages - 1)

(* str.rstrip("/"), line 398: the text of a URL with a query string does    *)
(* not end with the "/" of its path                                        *)
rstrip(u) == IF u.query THEN u ELSE [u EXCEPT !.slash = FALSE]

(* urljoin(current_url + "/", href) for an href that is absolute or         *)
(* protocol-relative                                                       *)
urljoin(base, href) == IF href.scheme = "" THEN [href EXCEPT !.scheme = base.scheme] ELSE href

(* line 427: scheme + "://" + netloc + path of the parsed URL *)
normalized_url(parsed_url) == [parsed_url EXCEPT !.query = FALSE]

(* normalize_asset_url *)
normalize_asset_url(u) == IF u.scheme = "" /\ u.host # <<>> THEN [u EXCEPT !.scheme = "https"] ELSE u

(* urlparse(url).netloc: the host as written, with its userinfo and port *)
netloc(u) ==
    (IF u.userinfo THEN <<"user@">> ELSE <<>>) \o u.host \o (IF u.port THEN <<":8080">> ELSE <<>>)

(* str.endswith on a host name *)
endswith(host, suffix) == host # <<>> /\ host[Len(host)] = suffix

(* is_webflow_asset_url, lines 135-144: host is the netloc of the parsed    *)
(* URL in lower case, as every host here is written                        *)
is_webflow_asset_url(u) ==
    LET normalized == normalize_asset_url(u)
        host == netloc(normalized)
    IN  /\ normalized.scheme \in {"http", "https"}
        /\ \/ host \in WEBFLOW_ASSET_HOSTS
           \/ \E suffix \in WEBFLOW_ASSET_HOST_SUFFIXES : endswith(host, suffix)

Buckets == {"css", "js", "images", "media"}

(* lines 431-544: the bucket of the element that holds a reference *)
Bucket(tag) ==
    CASE tag = "stylesheet" -> "css"
      [] tag = "script" -> "js"
      [] tag = "img" -> "images"
      [] tag = "video" -> "media"
      [] tag = "meta" -> "images"

(* lines 431-544: the URL a reference of a page stands for; the content of  *)
(* a meta element that names a scheme or starts with "//" is not joined    *)
(* with the URL of the page (lines 534-536)                                *)
RefUrl(current_url, ref) ==
    IF ref.tag = "meta"
    THEN normalize_asset_url(ref.href)
    ELSE normalize_asset_url(urljoin(current_url, ref.href))

(* The anchors a page of the site host may hold: each page plain and with   *)
(* a trailing slash and a query string, and a page of another host         *)
Hrefs(host) ==
    {Url("https", host, p, d, d) : p \in Paths, d \in BOOL} \cup {Url("https", OtherHost, 0, FALSE, FALSE)}

(* The references to files a page may hold: a stylesheet and a              *)
(* protocol-relative script of the CDN, an image of another host, and a    *)
(* meta element (og:url) naming the first page of the site                 *)
Refs(host) ==
    {[tag |-> "stylesheet", href |-> Url("https", CdnHost, 1, FALSE, FALSE)],
     [tag |-> "script", href |-> Url("", CdnHost, 0, FALSE, FALSE)],
     [tag |-> "img", href |-> Url("https", OtherHost, 1, FALSE, FALSE)],
     [tag |-> "meta", href |-> Url("https", host, 0, FALSE, FALSE)]}

SubsetsUpTo(S, n) == {T \in SUBSET S : Cardinality(T) <= n}

(* What the server of a site answers for a path: a document that is not     *)
(* HTML, or a page with at most MaxLinks anchors                           *)
Responses(host) ==
    {[content_type |-> "application/pdf", links |-> {}, refs |-> {}]} \cup
    {[content_type |-> "text/html", links |-> L, refs |-> {}] : L \in SubsetsUpTo(Hrefs(host), MaxLinks)}

(* The ways to give the pages of a site at most MaxRefs references in all *)
RefMaps(host) ==
    {[p \in Paths |-> {x[2] : x \in {y \in T : y[1] = p}}] :
        T \in SubsetsUpTo(Paths \X Refs(host), MaxRefs)}

(* The sites of a host: a response for each path, and the references of     *)
(* its pages                                                               *)
SitesOf(h) ==
    {[host |-> h,
      pages |-> [p \in Paths |->
                    IF ps[p].content_type = "text/html" THEN [ps[p] EXCEPT !.refs = r[p]] ELSE ps[p]]] :
        ps \in [Paths -> Responses(h)], r \in RefMaps(h)}

Sites(hosts) == UNION {SitesOf(h) : h \in hosts}

(* The seeds of a site: its first page, plain, with a trailing slash, and   *)
(* with a query string                                                     *)
Seeds(host) ==
    {Url("https", host, 0, FALSE, FALSE), Url("https", host, 0, TRUE, FALSE),
     Url("https", host, 0, FALSE, TRUE)}

(* A frame of recursive_scan: at its entry, or in the loop over the anchors *)
(* of the page it fetched, links being those still to come                 *)
Frame(current_url, phase, links, refs) ==
    [current_url |-> current_url, phase |-> phase, links |-> links, refs |-> refs]

(* scan_html, lines 391-395 and 546: the locals, and the call               *)
(* recursive_scan(url)                                                     *)
InitScan(sites) ==
    /\ InitServer
    /\ InitMain
    /\ scan_site \in sites
    /\ scan_url \in Seeds(scan_site.host)
    /\ visited = {}
    /\ html = <<>>
    /\ assets = [b \in Buckets |-> {}]
    /\ stack = <<Frame(scan_url, "entry", {}, {})>>
    /\ page_gets = <<>>
    /\ scan_result = Null
    /\ NoCall

(* urlparse(url).netloc, line 395 *)
base_domain == scan_url.host

Top == stack[Len(stack)]

Return == SubSeq(stack, 1, Len(stack) - 1)

(* recursive_scan as a bug would have it: the URL marked visited only       *)
(* after its page was fetched and found to be HTML                         *)
recursive_scan_visit_late ==
    /\ stack # <<>>
    /\ Top.phase = "entry"
    /\ LET current_url == rstrip(Top.current_url) IN
       IF current_url \in visited
       THEN /\ stack' = Return
            /\ UNCHANGED <<visited, html, page_gets>>
       ELSE \/ /\ page_gets' = Append(page_gets, [url |-> current_url, ok |-> FALSE])
               /\ stack' = Return
               /\ UNCHANGED <<visited, html>>
            \/ /\ page_gets' = Append(page_gets, [url |-> current_url, ok |-> TRUE])
               /\ LET response == scan_site.pages[current_url.path] IN
                  IF response.content_type # "text/html"
                  THEN /\ stack' = Return
                       /\ UNCHANGED <<visited, html>>
                  ELSE /\ visited' = visited \cup {current_url}
                       /\ html' = Append(html, current_url)
                       /\ stack' = [stack EXCEPT ![Len(stack)] =
                                       Frame(current_url, "links", response.links, response.refs)]
    /\ UNCHANGED <<scan_site, scan_url, assets, scan_result, server_vars, cli_vars, rewrite_vars>>

(* recursive_scan, lines 398-417: the URL without its trailing slashes is   *)
(* marked visited, then fetched; a failed fetch, a status that              *)
(* raise_for_status refuses or a content type other than HTML ends the     *)
(* call, else the page joins html and its anchors are looked at.           *)
recursive_scan ==
    /\ stack # <<>>
    /\ Top.phase = "entry"
    /\ LET current_url == rstrip(Top.current_url) IN
       IF current_url \in visited
       THEN /\ stack' = Return
            /\ UNCHANGED <<visited, html, page_gets>>
       ELSE /\ visited' = visited \cup {current_url}
            /\ \/ /\ page_gets' = Append(page_gets, [url |-> current_url, ok |-> FALSE])
                  /\ stack' = Return
                  /\ UNCHANGED html
               \/ /\ page_gets' = Append(page_gets, [url |-> current_url, ok |-> TRUE])
                  /\ LET response == scan_site.pages[current_url.path] IN
                     IF response.content_type # "text/html"
                     THEN /\ stack' = Return
                          /\ UNCHANGED html
                     ELSE /\ html' = Append(html, current_url)
                          /\ stack' = [stack EXCEPT ![Len(stack)] =
                                          Frame(current_url, "links", response.links, response.refs)]
    /\ UNCHANGED <<scan_site, scan_url, assets, scan_result, server_vars, cli_vars, rewrite_vars>>

(* recursive_scan_link as a bug would have it: the loop never leaves the    *)
(* anchor it is at                                                         *)
recursive_scan_link_again ==
    /\ stack # <<>>
    /\ Top.phase = "links"
    /\ \E href \in Top.links :
         LET parsed_url == urljoin(Top.current_url, href)
         IN  stack' = IF parsed_url.host = base_domain
                      THEN Append(stack, Frame(normalized_url(parsed_url), "entry", {}, {}))
                      ELSE stack
    /\ UNCHANGED <<scan_site, scan_url, visited, html, assets, page_gets, scan_result,
                   server_vars, cli_vars, rewrite_vars>>

(* recursive_scan, lines 420-428: the next anchor of the page; one whose    *)
(* host is the seed's is followed by a recursive call.  The anchors are    *)
(* taken in any order, which covers every order in the document.           *)
recursive_scan_link ==
    /\ stack # <<>>
    /\ Top.phase = "links"
    /\ \E href \in Top.links :
         LET parsed_url == urljoin(Top.current_url, href)
             rest == [stack EXCEPT ![Len(stack)].links = @ \ {href}]
         IN  stack' = IF parsed_url.host = base_domain
                      THEN Append(rest, Frame(normalized_url(parsed_url), "entry", {}, {}))
                      ELSE rest
    /\ UNCHANGED <<scan_site, scan_url, visited, html, assets, page_gets, scan_result,
                   server_vars, cli_vars, rewrite_vars>>

(* The references of a set that is_webflow_asset_url accepts, for a bucket *)
Collected(current_url, refs, b) ==
    {RefUrl(current_url, ref) : ref \in {r \in refs : Bucket(r.tag) = b /\ is_webflow_asset_url(RefUrl(current_url, r))}}

(* recursive_scan, lines 431-544: after the last anchor, the references of  *)
(* the page that are platform assets join their buckets, and the call      *)
(* returns.                                                                *)
recursive_scan_assets ==
    /\ stack # <<>>
    /\ Top.phase = "links"
    /\ Top.links = {}
    /\ assets' = [b \in Buckets |-> assets[b] \cup Collected(Top.current_url, Top.refs, b)]
    /\ stack' = Return
    /\ UNCHANGED <<scan_site, scan_url, visited, html, page_gets, scan_result, server_vars, cli_vars, rewrite_vars>>

HostIndex(host) == CHOOSE i \in 1..Len(Hosts) : Hosts[i] = host

(* The place of a URL in the order of sorted: URLs are text, and any total  *)
(* order of them stands for the order of text.                             *)
UrlKey(u) ==
    (((IF u.scheme = "https" THEN 1 ELSE 0) * (Len(Hosts) + 1) + HostIndex(u.host)) * MaxPages + u.path) * 4
    + (IF u.slash THEN 2 ELSE 0) + (IF u.query THEN 1 ELSE 0)

(* sorted() of a list: each entry at the place that the number of entries  *)
(* before it in the order gives it, equal entries in the order they came   *)
sorted(q) ==
    LET place(i) ==
            1 + Cardinality({k \in 1..Len(q) :
                                \/ UrlKey(q[k]) < UrlKey(q[i])
                                \/ UrlKey(q[k]) = UrlKey(q[i]) /\ k < i})
    IN  [n \in 1..Len(q) |-> q[CHOOSE i \in 1..Len(q) : place(i) = n]]

RECURSIVE sorted_set(_)
(* sorted() of a set *)
sorted_set(S) ==
    IF S = {} THEN <<>>
    ELSE LET m == CHOOSE u \in S : \A v \in S : UrlKey(u) <= UrlKey(v)
         IN  <<m>> \o sorted_set(S \ {m})

(* scan_html, lines 546-554: recursive_scan(url) has returned *)
scan_html_return ==
    /\ stack = <<>>
    /\ scan_site # Null
    /\ scan_result = Null
    /\ scan_result' = Some([html |-> sorted(html),
                            css |-> sorted_set(assets["css"]),
                            js |-> sorted_set(assets["js"]),
                            images |-> sorted_set(assets["images"]),
                            media |-> sorted_set(assets["media"])])
    /\ UNCHANGED <<scan_site, scan_url, visited, html, assets, stack, page_gets, server_vars, cli_vars, rewrite_vars>>

(* ---- the classifier and the rewriters, call by call ---- *)

(* The call that is looked at *)
Call == rw_call[1]

(* A call of fn has been made and has not returned *)
Called(fn) == rw_call # Null /\ Call.fn = fn /\ rw_returns = <<>>

(* The host of the allow-list *)
AllowedHost == <<"d3e54v103j8qbb.cloudfront.net">>

(* A URL written with userinfo before its host or a port after it *)
UrlAt(u, userinfo, port) == [u EXCEPT !.userinfo = userinfo, !.port = port]

(* The URLs given to the classifier: every scheme, one that is neither http *)
(* nor https and none at all included, on hosts in and out of the allow    *)
(* list and the suffixes, with and without userinfo and port                *)
Candidates ==
    {UrlAt(Url(scheme, host, 1, FALSE, FALSE), userinfo, port) :
        scheme \in {"http", "https", "ftp", ""},
        host \in {CustomHost, WebflowHost, CdnHost, OtherHost, AllowedHost},
        userinfo \in BOOL, port \in BOOL}

(* Text is a sequence of pieces of text: URLs, and words that hold no URL *)
Word(w) == [word |-> w]

Sp == Word(" ")

Comma == Word(",")

IsUrl(c) == "scheme" \in DOMAIN c

(* The place of the first sep in a text, 0 if there is none *)
find(text, sep) ==
    IF \E i \in 1..Len(text) : text[i] = sep
    THEN CHOOSE i \in 1..Len(text) : text[i] = sep /\ \A k \in 1..(i - 1) : text[k] # sep
    ELSE 0

RECURSIVE split(_, _)
(* str.split(sep) *)
split(text, sep) ==
    LET i == find(text, sep)
    IN  IF i = 0 THEN <<text>>
        ELSE <<SubSeq(text, 1, i - 1)>> \o split(SubSeq(text, i + 1, Len(text)), sep)

RECURSIVE strip(_)
(* str.strip() *)
strip(text) ==
    IF text = <<>> THEN text
    ELSE IF text[1] = Sp THEN strip(Tail(text))
    ELSE IF text[Len(text)] = Sp THEN strip(SubSeq(text, 1, Len(text) - 1))
    ELSE text

RECURSIVE join(_, _)
(* sep.join(parts) *)
join(sep, parts) ==
    IF parts = <<>> THEN <<>>
    ELSE IF Len(parts) = 1 THEN parts[1]
    ELSE parts[1] \o sep \o join(sep, Tail(parts))

(* local_asset_path, lines 150-155: asset_type + "/" + the last segment of  *)
(* the path, None for a path that ends with "/"                            *)
local_asset_path(asset_type, url) ==
    LET normalized == normalize_asset_url(url)
    IN  IF normalized.slash THEN Null
        ELSE Some([Url("", <<>>, normalized.path, FALSE, FALSE) EXCEPT !.dir = <<asset_type>>])

(* rewrite_attribute as a bug would have it: the folder of the asset type   *)
(* put before the path of whatever the value holds                         *)
rewrite_url_any(value, asset_type) ==
    IF Len(value) = 1 /\ IsUrl(value[1])
    THEN <<[value[1] EXCEPT !.scheme = "", !.host = <<>>, !.dir = <<asset_type>> \o @, !.query = FALSE]>>
    ELSE value

(* rewrite_attribute, lines 606-610, and the body of the loop of            *)
(* rewrite_srcset, lines 176-180: the local path of a value that is the    *)
(* URL of a platform asset with a file name, else the value                *)
rewrite_url(value, asset_type) ==
    IF Len(value) = 1 /\ IsUrl(value[1]) /\ is_webflow_asset_url(normalize_asset_url(value[1]))
    THEN LET local_path == local_asset_path(asset_type, normalize_asset_url(value[1]))
         IN  IF local_path # Null THEN local_path ELSE value
    ELSE value

(* rewrite_srcset, lines 166-185: what one item of the value adds to parts *)
rewrite_srcset_item(item, asset_type) ==
    LET piece == strip(item)
        i == find(piece, Sp)
        url_part == rewrite_url(IF i > 0 THEN SubSeq(piece, 1, i - 1) ELSE piece, asset_type)
        descriptor == IF i > 0 THEN strip(SubSeq(piece, i + 1, Len(piece))) ELSE <<>>
    IN  IF piece = <<>> THEN <<>>
        ELSE IF descriptor # <<>> THEN <<url_part \o <<Sp>> \o descriptor>>
        ELSE <<url_part>>

RECURSIVE rewrite_srcset_parts(_, _)
(* rewrite_srcset, lines 164-185: parts *)
rewrite_srcset_parts(items, asset_type) ==
    IF items = <<>> THEN <<>>
    ELSE rewrite_srcset_item(items[1], asset_type) \o rewrite_srcset_parts(Tail(items), asset_type)

(* rewrite_srcset *)
rewrite_srcset(value, asset_type) ==
    IF value = <<>> THEN value
    ELSE join(<<Comma, Sp>>, rewrite_srcset_parts(split(value, Comma), asset_type))

(* The URLs an attribute may hold: an asset of the CDN with its scheme and  *)
(* without, one whose path ends with "/", a file of another host, and a    *)
(* local path                                                              *)
AttributeUrls ==
    {Url("https", CdnHost, 1, FALSE, FALSE), Url("", CdnHost, 2, FALSE, TRUE),
     Url("https", CdnHost, 1, TRUE, FALSE), Url("https", OtherHost, 1, FALSE, FALSE),
     [Url("", <<>>, 1, FALSE, FALSE) EXCEPT !.dir = <<"images">>]}

MaxEntries == 2

(* The entries of a srcset value: a URL alone, a URL and a descriptor with  *)
(* one space or more around them, and an entry without a URL               *)
SrcsetEntries ==
    {<<u>> : u \in AttributeUrls} \cup
    {<<u, Sp, Word(d)>> : u \in AttributeUrls, d \in {"1x", "800w"}} \cup
    {<<Sp, u, Sp, Sp, Word("2x"), Sp>> : u \in AttributeUrls} \cup
    {<<>>, <<Sp>>}

(* The srcset values of at most MaxEntries entries *)
SrcsetValues ==
    {join(<<Comma>>, entries) : entries \in UNION {[1..n -> SrcsetEntries] : n \in 1..MaxEntries}}

(* process_html, lines 620-676: the asset type that the loop over the       *)
(* elements of a kind passes to rewrite_attribute                          *)
asset_type_of(tag) ==
    CASE tag = "script" -> "js"
      [] tag = "stylesheet" -> "css"
      [] tag = "img" -> "images"
      [] tag = "video" -> "media"
      [] tag = "meta" -> "images"

(* An attribute of an element of a document that process_html looks at *)
Attribute(tag, attribute, value) == [tag |-> tag, attribute |-> attribute, value |-> value]

(* process_html, lines 602-618 and 670-676: rewrite_attribute,              *)
(* rewrite_srcset_attribute and the loop over meta elements                *)
rewrite_attribute(a) ==
    IF a.value = <<>> THEN a
    ELSE IF a.attribute = "srcset"
    THEN LET rewritten == rewrite_srcset(a.value, asset_type_of(a.tag))
         IN  IF rewritten # <<>> THEN [a EXCEPT !.value = rewritten] ELSE a
    ELSE [a EXCEPT !.value = rewrite_url(a.value, asset_type_of(a.tag))]

(* process_html: the attributes of the file after the loops; the layout     *)
(* that prettify gives the file is left out                                *)
process_html(document) == [i \in 1..Len(document) |-> rewrite_attribute(document[i])]

(* A place below the output folder: its folders, and the name of the file, *)
(* page 0 being the page of the empty path, whose file is index.html       *)
File(dir, name, ext) == [dir |-> dir, name |-> name, ext |-> ext]

(* download_assets, lines 576-589: relative_path, None for an asset whose   *)
(* path has no last segment                                                *)
relative_path(asset_type, url) ==
    IF asset_type = "html" THEN Some(File(url.dir, url.path, ".html"))
    ELSE IF url.slash THEN Null
    ELSE Some(File(<<asset_type>>, url.path, ""))

MaxAttributes == 2

(* The pages: the first page of the site, a page of the first level and a   *)
(* page in a folder                                                        *)
PageUrls ==
    {Url("https", CustomHost, 0, FALSE, FALSE), Url("https", CustomHost, 1, FALSE, FALSE),
     [Url("https", CustomHost, 1, FALSE, FALSE) EXCEPT !.dir = <<"blog">>]}

(* The attributes a page may hold *)
Attributes ==
    {Attribute(tag, "src", <<u>>) : tag \in {"script", "img", "video"}, u \in AttributeUrls} \cup
    {Attribute("stylesheet", "href", <<u>>) : u \in AttributeUrls} \cup
    {Attribute("meta", "content", <<u>>) : u \in AttributeUrls} \cup
    {Attribute("img", "srcset", v) :
        v \in {join(<<Comma>>, <<e>>) : e \in SrcsetEntries} \cup
              {<<u, Sp, Word("1x"), Comma, Sp, v, Sp, Word("2x")>> : u \in AttributeUrls, v \in AttributeUrls}}

(* The documents of at most MaxAttributes attributes *)
Documents == UNION {[1..n -> Attributes] : n \in 0..MaxAttributes}

(* download_file(url, output_path, 'html'), lines 559-567, for a page that  *)
(* is fetched whole: the file is written and process_html rewrites it      *)
download_file_html ==
    /\ Called("download_file")
    /\ rw_returns' = <<[output_path |-> relative_path("html", Call.url)[1],
                        document |-> process_html(Call.document)]>>
    /\ UNCHANGED <<rw_call, server_vars, cli_vars, crawl_vars>>

(* process_html(file) on a file that process_html has written *)
process_html_again ==
    /\ rw_call # Null
    /\ Call.fn = "download_file"
    /\ Len(rw_returns) = 1
    /\ rw_returns' = Append(rw_returns, [rw_returns[1] EXCEPT !.document = process_html(@)])
    /\ UNCHANGED <<rw_call, server_vars, cli_vars, crawl_vars>>

(* In the text of a stylesheet a URL with a scheme is the scheme and the    *)
(* colon followed by the text of the URL from "//" on, so that the text of *)
(* a protocol-relative URL is a part of the text of its https form.        *)
Scheme(s) == [before_colon |-> s]

IsSchemeLess(c) == IsUrl(c) /\ c.scheme = "" /\ c.host # <<>>

RECURSIVE findall(_)
(* re.findall, line 699: the matches of https?://... and of //..., from     *)
(* left to right, a match of the first taking the "//" that follows        *)
findall(content) ==
    IF content = <<>> THEN {}
    ELSE IF /\ content[1] \in {Scheme("http"), Scheme("https")}
            /\ Len(content) > 1
            /\ IsSchemeLess(content[2])
    THEN {SubSeq(content, 1, 2)} \cup findall(SubSeq(content, 3, Len(content)))
    ELSE IF IsSchemeLess(content[1])
    THEN {SubSeq(content, 1, 1)} \cup findall(Tail(content))
    ELSE findall(Tail(content))

(* The URL that a match is the text of *)
ParsedUrl(raw_url) ==
    IF Len(raw_url) = 2
    THEN [raw_url[2] EXCEPT !.scheme = IF raw_url[1] = Scheme("http") THEN "http" ELSE "https"]
    ELSE raw_url[1]

(* process_css, lines 707-734: the matches that assets_map has a key for:   *)
(* the URLs of platform assets with a file name                            *)
assets_map_keys(raw_urls) ==
    {raw_url \in raw_urls :
        /\ is_webflow_asset_url(normalize_asset_url(ParsedUrl(raw_url)))
        /\ ~normalize_asset_url(ParsedUrl(raw_url)).slash}

(* process_css, lines 718-719 and 734: os.path.relpath of the image below   *)
(* the output folder, from the folder of the stylesheet, which is css      *)
assets_map(raw_url) ==
    <<[Url("", <<>>, normalize_asset_url(ParsedUrl(raw_url)).path, FALSE, FALSE)
          EXCEPT !.dir = <<"..", "images">>]>>

RECURSIVE replace(_, _, _)
(* str.replace(old, new): every occurrence of old, from left to right *)
replace(text, old, new) ==
    IF Len(text) < Len(old) THEN text
    ELSE IF SubSeq(text, 1, Len(old)) = old
    THEN new \o replace(SubSeq(text, Len(old) + 1, Len(text)), old, new)
    ELSE <<text[1]>> \o replace(Tail(text), old, new)

RECURSIVE replace_all(_, _)
(* process_css, lines 737-739: the loop over assets_map.items() *)
replace_all(updated_content, items) ==
    IF items = <<>> THEN updated_content
    ELSE replace_all(replace(updated_content, items[1], assets_map(items[1])), Tail(items))

(* The orders in which a loop may meet the members of a set *)
Orders(S) == {o \in [1..Cardinality(S) -> S] : \A i, k \in 1..Cardinality(S) : i # k => o[i] # o[k]}

MaxDeclarations == 2

(* The url(...) of a declaration: an image of the CDN with its scheme and   *)
(* without, another image of the CDN, a URL of the CDN whose path ends     *)
(* with "/", and a file of another host                                    *)
CssUrls ==
    {<<Scheme("https"), Url("", CdnHost, 1, FALSE, FALSE)>>, <<Url("", CdnHost, 1, FALSE, FALSE)>>,
     <<Scheme("https"), Url("", CdnHost, 2, FALSE, FALSE)>>,
     <<Scheme("https"), Url("", CdnHost, 1, TRUE, FALSE)>>,
     <<Scheme("https"), Url("", OtherHost, 1, FALSE, FALSE)>>}

RECURSIVE concat(_)
concat(texts) == IF texts = <<>> THEN <<>> ELSE texts[1] \o concat(Tail(texts))

(* The stylesheets of at most MaxDeclarations declarations with a url(...) *)
Stylesheets ==
    {concat([i \in 1..Len(urls) |-> <<Word("url(")>> \o urls[i] \o <<Word(")")>>]) :
        urls \in UNION {[1..n -> CssUrls] : n \in 0..MaxDeclarations}}

(* process_css(file_path, output_folder), lines 694-742: the text written   *)
(* back, and the images asked for.  raw_urls is a set of str and           *)
(* assets_map is filled in the order of that set, which differs from run   *)
(* to run, so the loop of line 738 meets the keys in any order.            *)
process_css_call ==
    /\ Called("process_css")
    /\ \E items \in Orders(assets_map_keys(findall(Call.content))) :
          rw_returns' = <<[content |-> replace_all(Call.content, items),
                           items |-> items,
                           downloaded |-> {normalize_asset_url(ParsedUrl(raw_url)) : raw_url \in {items[i] : i \in 1..Len(items)}}]>>
    /\ UNCHANGED <<rw_call, server_vars, cli_vars, crawl_vars>>

(* rewrite_srcset(value, asset_type) is called and returns *)
rewrite_srcset_call ==
    /\ Called("rewrite_srcset")
    /\ rw_returns' = <<rewrite_srcset(Call.value, Call.asset_type)>>
    /\ UNCHANGED <<rw_call, server_vars, cli_vars, crawl_vars>>

(* is_webflow_asset_url(url) is called and returns *)
is_webflow_asset_url_call ==
    /\ Called("is_webflow_asset_url")
    /\ rw_returns' = <<is_webflow_asset_url(Call.url)>>
    /\ UNCHANGED <<rw_call, server_vars, cli_vars, crawl_vars>>

(* ---- specifications ---- *)

(* One job and a client that polls its progress and asks for its archive:   *)
(* every payload, every manifest of at most MaxAssets entries.              *)
Next ==
    \/ create_export_job(ExportRequest, {1})
    \/ export_progress
    \/ download_export
    \/ download_export_status
    \/ \E j \in JobIds : _run_export_job(j, Manifests)
    \/ \E j \in JobIds : per_file_steps(j)

Spec == Init /\ [][Next]_vars

(* The same under the scheduling of threads: the thread of a job is a       *)
(* thread of its own (api.py:183-184) that takes its next step whenever it *)
(* has one, every fetch of it having a timeout; nothing is assumed of the  *)
(* client.                                                                 *)
SpecFair == Spec /\ \A j \in JobIds : WF_vars(_run_export_job(j, Manifests) \/ per_file_steps(j))

(* MaxJobs jobs whose threads run concurrently on the shared exporter        *)
(* logger.  To keep the interleavings within reach the payloads leave       *)
(* remove_badge and debug unset and the crawl finds no page, so that the    *)
(* sitemap message is the one info-level log call of a job and no           *)
(* per-file step is ever enabled.                                           *)
ConcurrentRequests == [remove_badge : {FALSE}, generate_sitemap : BOOL, debug : {FALSE}, silent : BOOL]

ConcurrentManifests == {<<>>}

NextConcurrent ==
    \/ create_export_job(ConcurrentRequests, JobIds)
    \/ \E j \in JobIds : _run_export_job(j, ConcurrentManifests)

SpecConcurrent == Init /\ [][NextConcurrent]_vars

(* The entry points called with any flags: one run of the command line, and *)
(* beside it the API server taking the POST /exports of any payload and     *)
(* running the jobs of a site without a page.                               *)
NextEntry ==
    \/ main
    \/ create_export_job(ExportRequest, {1})
    \/ \E j \in JobIds : _run_export_job(j, ConcurrentManifests)
    \/ \E j \in JobIds : remove_badge_from_output(j)

SpecEntry == Init /\ [][NextEntry]_vars

(* One run of scan_html on a site of at most MaxPages pages, on a custom    *)
(* domain or on a webflow.io host, from each of its seeds, any fetch of    *)
(* which may fail.                                                         *)
NextCrawl ==
    \/ recursive_scan
    \/ recursive_scan_link
    \/ recursive_scan_assets
    \/ scan_html_return

SpecCrawl == InitScan(Sites({CustomHost, WebflowHost})) /\ [][NextCrawl]_vars

(* A crawl under the scheduling of a thread: scan_html is sequential code    *)
(* whose every fetch has a timeout (line 404), so a step that can be taken  *)
(* is taken.                                                               *)
SpecCrawlFair == SpecCrawl /\ WF_vars(NextCrawl)

(* ---- download_assets on a manifest: the files it writes ---- *)

MaxManifest == 2

(* The URLs of the assets of a manifest: a file of the CDN, the file of the *)
(* same name in a folder of the CDN, the same file asked for with a query  *)
(* string, and a URL whose path ends with "/"                              *)
DownloadUrls ==
    {Url("https", CdnHost, 1, FALSE, FALSE),
     [Url("https", CdnHost, 1, FALSE, FALSE) EXCEPT !.dir = <<"a">>],
     Url("https", CdnHost, 1, FALSE, TRUE),
     Url("https", CdnHost, 1, TRUE, FALSE)}

(* The entries of a manifest: a URL under the key of its category *)
Entries ==
    {[asset_type |-> "html", url |-> u] : u \in PageUrls} \cup
    {[asset_type |-> t, url |-> u] : t \in Buckets, u \in DownloadUrls}

(* The manifests of scan_html of at most MaxManifest entries, as the loops  *)
(* of lines 573-575 meet them: key by key, the URLs of a key being         *)
(* distinct and in the order of sorted, which is any order of these URLs,  *)
(* whose text is not modelled                                              *)
DownloadManifests ==
    UNION {{m \in [1..n -> Entries] :
               \A i, k \in 1..n :
                   i < k => /\ m[i] # m[k]
                            /\ \E a, b \in 1..Len(AssetTypes) :
                                  /\ a <= b
                                  /\ AssetTypes[a] = m[i].asset_type
                                  /\ AssetTypes[b] = m[k].asset_type}
           : n \in 0..MaxManifest}

(* What a fetch comes to: the response is written whole, requests raises in *)
(* get or raise_for_status before the file is opened, or it raises in      *)
(* iter_content when the file is open                                      *)
Outcomes == {"ok", "raised", "cut"}

(* open(path, 'wb') by download_file or process_css for a URL *)
Write(path, url, by) == [path |-> path, url |-> url, by |-> by]

RECURSIVE process_css_images(_, _, _, _)
(* process_css, the loop of lines 707-734 over the keys of assets_map in    *)
(* the order items: the files it writes under images/, given the files     *)
(* written before and the URLs in downloaded                               *)
process_css_images(items, outcomes, writes, downloaded) ==
    IF items = <<>> THEN <<>>
    ELSE LET normalized == normalize_asset_url(ParsedUrl(items[1]))
             image_output_path == File(<<"images">>, normalized.path, "")
             fetched == /\ normalized \notin downloaded
                        /\ \A i \in 1..Len(writes) : writes[i].path # image_output_path
             written == IF fetched /\ outcomes[1] # "raised"
                        THEN <<Write(image_output_path, normalized, "process_css")>>
                        ELSE <<>>
         IN  written \o process_css_images(Tail(items), Tail(outcomes), writes \o written,
                                           IF fetched THEN downloaded \cup {normalized} ELSE downloaded)

(* The files written so far by the call of download_assets *)
written_files == concat(rw_returns)

(* download_assets, lines 575-594, for the next URL of the manifest: an     *)
(* asset without a file name is skipped; else download_file fetches the    *)
(* URL and writes the file, and process_css fetches the images of a        *)
(* stylesheet that came whole                                              *)
download_assets_url ==
    /\ rw_call # Null
    /\ Call.fn = "download_assets"
    /\ Len(rw_returns) < Len(Call.assets)
    /\ LET e == Call.assets[Len(rw_returns) + 1]
           output_path == relative_path(e.asset_type, e.url)
       IN  IF output_path = Null
           THEN rw_returns' = Append(rw_returns, <<>>)
           ELSE \E outcome \in Outcomes :
                    LET file == IF outcome = "raised" THEN <<>>
                                ELSE <<Write(output_path[1], e.url, "download_file")>>
                    IN  IF e.asset_type = "css" /\ outcome = "ok"
                        THEN \E items \in Orders(assets_map_keys(findall(Call.stylesheet))) :
                             \E outcomes \in [1..Len(items) -> Outcomes] :
                                 rw_returns' = Append(rw_returns,
                                     file \o process_css_images(items, outcomes, written_files \o file, {}))
                        ELSE rw_returns' = Append(rw_returns, file)
    /\ UNCHANGED <<rw_call, server_vars, cli_vars, crawl_vars>>

(* download_assets is called with a manifest; the text of its stylesheets   *)
(* is empty when it has none                                               *)
InitDownload ==
    /\ InitServer
    /\ InitMain
    /\ NoScan
    /\ rw_call \in {Some([fn |-> "download_assets", assets |-> m, stylesheet |-> c]) :
                       m \in DownloadManifests, c \in Stylesheets}
    /\ (\A i \in 1..Len(Call.assets) : Call.assets[i].asset_type # "css") => Call.stylesheet = <<>>
    /\ rw_returns = <<>>

NextDownload == download_assets_url

SpecDownload == InitDownload /\ [][NextDownload]_vars

(* The calls of the classifier and of the rewriters, one call a run *)
Calls ==
    {[fn |-> "is_webflow_asset_url", url |-> u] : u \in Candidates} \cup
    {[fn |-> "rewrite_srcset", value |-> v, asset_type |-> t] : v \in SrcsetValues, t \in {"images", "media"}} \cup
    {[fn |-> "download_file", url |-> u, document |-> d] : u \in PageUrls, d \in Documents} \cup
    {[fn |-> "process_css", content |-> c] : c \in Stylesheets}

NextRewrite ==
    \/ is_webflow_asset_url_call
    \/ rewrite_srcset_call
    \/ download_file_html
    \/ process_html_again
    \/ process_css_call

(* A call is made, of any of the functions with any of its arguments *)
InitRewrite ==
    /\ InitServer
    /\ InitMain
    /\ NoScan
    /\ rw_call \in {Some(c) : c \in Calls}
    /\ rw_returns = <<>>

SpecRewrite == InitRewrite /\ [][NextRewrite]_vars

(* ---- properties ---- *)

IsPrefix(a, b) == Len(a) <= Len(b) /\ SubSeq(b, 1, Len(a)) = a

Last(q) == q[Len(q)]

IsStage(e) == e.type = "stage"

IsTerminalStage(e) == e.type = "stage" /\ e.name \in {"complete", "error"}

(* The names of the stage events of a sequence of events, in order *)
StageNames(events) ==
    LET st == SelectSeq(events, IsStage) IN [i \in 1..Len(st) |-> st[i].name]

Jobs == DOMAIN JOB_STORE

StatusSteps == {<<"queued", "running">>, <<"running", "complete">>, <<"running", "error">>}

(* C1: a job's status moves only queued -> running -> complete or          *)
(* queued -> running -> error; a new job is queued, no job leaves the      *)
(* registry, and complete and error are never left.                        *)
C1_StatusTransitions ==
    [][/\ Jobs \subseteq DOMAIN JOB_STORE'
       /\ \A j \in DOMAIN JOB_STORE' \ Jobs : JOB_STORE'[j].status = "queued"
       /\ \A j \in Jobs :
            \/ JOB_STORE'[j].status = JOB_STORE[j].status
            \/ <<JOB_STORE[j].status, JOB_STORE'[j].status>> \in StatusSteps]_vars

(* C1 witness: one job ended complete and another ended error, both threads *)
(* having run side by side                                                 *)
C1_Witness ==
    \E j, k \in Jobs : JOB_STORE[j].status = "complete" /\ JOB_STORE[k].status = "error"

(* C2 as claimed: the archive descriptor (path, size) of a job is non-null  *)
(* only when its status is complete.                                       *)
C2_ArchiveOnlyWhenComplete ==
    \A j \in Jobs :
        (JOB_STORE[j].archive_path # Null \/ JOB_STORE[j].archive_size # Null)
            => JOB_STORE[j].status = "complete"

(* C3 as claimed: the error message of a job is non-null only when its      *)
(* status is error.                                                        *)
C3_ErrorOnlyWhenError ==
    \A j \in Jobs : JOB_STORE[j].error # Null => JOB_STORE[j].status = "error"

(* C4 as claimed: a terminal stage event (complete or error) is the last    *)
(* element of the job's events whenever it is among them, so nothing is    *)
(* appended after it and there is at most one.                             *)
C4_TerminalStageIsLast ==
    \A j \in Jobs :
        \A i \in 1..Len(JOB_STORE[j].events) :
            IsTerminalStage(JOB_STORE[j].events[i]) => i = Len(JOB_STORE[j].events)

(* C5 as claimed: while a job's status is complete the last of its events   *)
(* is the stage event complete, and while it is error the last of its      *)
(* events is the stage event error.                                        *)
C5_TerminalStatusMatchesLastEvent ==
    \A j \in Jobs :
        JOB_STORE[j].status \in {"complete", "error"} =>
            /\ JOB_STORE[j].events # <<>>
            /\ IsStage(Last(JOB_STORE[j].events))
            /\ Last(JOB_STORE[j].events).name = JOB_STORE[j].status

(* C6 as claimed: every event of a job was produced by that job's own       *)
(* pipeline execution.                                                     *)
C6_EventIsolation ==
    \A j \in Jobs : \A i \in 1..Len(JOB_STORE[j].events) : JOB_STORE[j].events[i].by = j

(* C7: the events of a job are append-only: every step leaves the events    *)
(* it found as a prefix of the events it leaves, whichever thread takes    *)
(* the step.                                                               *)
C7_EventsAppendOnly ==
    [][\A j \in Jobs :
          /\ j \in DOMAIN JOB_STORE'
          /\ IsPrefix(JOB_STORE[j].events, JOB_STORE'[j].events)]_vars

(* C7 witness: a job's events hold an event appended by another job's       *)
(* thread between two of its own                                           *)
C7_Witness ==
    \E j \in Jobs : \E i \in 1..Len(JOB_STORE[j].events) :
        /\ i < Len(JOB_STORE[j].events)
        /\ JOB_STORE[j].events[i].by # j
        /\ JOB_STORE[j].events[i + 1].by = j

(* C8: the jobs created have distinct ids and distinct output directories,  *)
(* each id returned by POST /exports resolves to its job, and an id never  *)
(* returned is not found.                                                  *)
C8_Registry ==
    /\ \A id \in JobIds :
         IF id \in returned
         THEN _get_job(JOB_STORE, id) # Null /\ _get_job(JOB_STORE, id)[1].id = id
         ELSE _get_job(JOB_STORE, id) = Null
    /\ \A j, k \in Jobs : j # k => JOB_STORE[j].output_dir # JOB_STORE[k].output_dir
    /\ Cardinality(Jobs) = Cardinality(returned)

(* C8 witness: MaxJobs jobs were created while the first had not finished *)
C8_Witness ==
    /\ Cardinality(returned) = MaxJobs
    /\ \E j \in Jobs : JOB_STORE[j].status # "queued"

SpecStageNames ==
    {"start", "validate_url", "clear_output", "scanning", "scanned", "downloading",
     "downloaded", "removing_badge", "badge_removed", "generating_sitemap",
     "sitemap_generated", "zipping", "zipped", "complete", "error"}

(* C9 as claimed: every stage event has a name of the fixed set. *)
C9_StageNamesInSpecSet ==
    \A j \in Jobs : \A i \in 1..Len(JOB_STORE[j].events) :
        IsStage(JOB_STORE[j].events[i]) => JOB_STORE[j].events[i].name \in SpecStageNames

(* C9 amended: every stage event has a name of the fixed set or the name    *)
(* ready_for_archive.                                                      *)
C9_StageNames ==
    \A j \in Jobs : \A i \in 1..Len(JOB_STORE[j].events) :
        IsStage(JOB_STORE[j].events[i]) =>
            JOB_STORE[j].events[i].name \in SpecStageNames \cup {"ready_for_archive"}

(* C9 witness: a job recorded the stage ready_for_archive and ended *)
C9_Witness ==
    \E j \in Jobs :
        /\ JOB_STORE[j].status = "complete"
        /\ \E i \in 1..Len(JOB_STORE[j].events) :
             IsStage(JOB_STORE[j].events[i]) /\ JOB_STORE[j].events[i].name = "ready_for_archive"

(* The order of the milestones for a payload, with and without the          *)
(* milestone between the optional steps and the archive                    *)
PipelineOrder(r, before_archive) ==
    <<"start", "validate_url", "clear_output", "scanning", "scanned", "downloading", "downloaded">>
    \o (IF r.remove_badge THEN <<"removing_badge", "badge_removed">> ELSE <<>>)
    \o (IF r.generate_sitemap THEN <<"generating_sitemap", "sitemap_generated">> ELSE <<>>)
    \o before_archive
    \o <<"zipping", "zipped", "complete">>

InPipelineOrder(j, order) ==
    LET names == StageNames(JOB_STORE[j].events) IN
    /\ \/ IsPrefix(names, order)
       \/ /\ names # <<>>
          /\ Last(names) = "error"
          /\ IsPrefix(SubSeq(names, 1, Len(names) - 1), order)
    /\ JOB_STORE[j].status = "complete" => names = order
    /\ JOB_STORE[j].status = "error" => names # <<>> /\ Last(names) = "error"

(* C10 as claimed: the stage events of a job are, in order and each at most *)
(* once, start .. downloaded, the badge pair iff remove_badge, the sitemap *)
(* pair iff generate_sitemap, zipping, zipped, complete; those of a failed *)
(* run are a prefix of that order followed by error.                       *)
C10_StageOrderAsClaimed ==
    \A j \in Jobs : InPipelineOrder(j, PipelineOrder(JOB_STORE[j].request, <<>>))

(* C10 amended: the same with the stage ready_for_archive between the       *)
(* optional steps and zipping.                                             *)
C10_StageOrder ==
    \A j \in Jobs : InPipelineOrder(j, PipelineOrder(JOB_STORE[j].request, <<"ready_for_archive">>))

(* C10 witness: a complete job that ran both optional steps *)
C10_Witness ==
    \E j \in Jobs :
        /\ JOB_STORE[j].status = "complete"
        /\ JOB_STORE[j].request.remove_badge
        /\ JOB_STORE[j].request.generate_sitemap
        /\ Len(StageNames(JOB_STORE[j].events)) = Len(PipelineOrder(JOB_STORE[j].request, <<>>)) + 1

Conflicting(flags) == flags.debug /\ flags.silent

(* C11: debug and silent together are rejected before any work.  No job     *)
(* ever has both flags; the POST /exports that answers 400 leaves the       *)
(* registry, the threads and the output directories as they were; and a    *)
(* command-line run with both flags never fetches, never clears the output *)
(* folder and never changes the level of the logger.                       *)
C11_ConflictRejectedBeforeWork ==
    /\ [](\A j \in Jobs : ~Conflicting(JOB_STORE[j].request))
    /\ [](cli_args # Null /\ Conflicting(cli_args[1]) => cli_io = <<>> /\ cli_level = NOTSET)
    /\ [][/\ (resp' # resp /\ resp'.code = 400) => UNCHANGED <<JOB_STORE, pc, returned, io>>
          /\ (cli_args # Null /\ Conflicting(cli_args[1])) => UNCHANGED <<cli_io, cli_level>>]_vars

(* C11 witness: the server has answered 400 and a command-line run with     *)
(* both flags has ended                                                    *)
C11_Witness ==
    /\ resp.code = 400
    /\ cli_args # Null /\ Conflicting(cli_args[1])
    /\ cli_pc = "exit"

(* The thread of job j, or the command line, has fetched the seed for       *)
(* check_url and the check has failed                                      *)
ValidationFailed(ops) == ops # <<>> /\ ops[1] = Get(SeedUrl, FALSE)

(* C12 as claimed: a seed URL that fails validation is refused by           *)
(* POST /exports, so that no job whose seed fails validation is ever       *)
(* registered or has its id returned.                                      *)
C12_ValidationRejectedAtCreation ==
    \A j \in JobIds : ValidationFailed(io[j]) => j \notin Jobs /\ j \notin returned

(* C13: when the validation of the seed fails the run aborts before any     *)
(* crawl or download work: the failed fetch of the seed stays the thread's *)
(* only I/O (no folder clearing, no page fetch of the crawl, no asset      *)
(* fetch), no file is written, no stage event after validate_url other     *)
(* than error is recorded, and the thread ends with the job in status      *)
(* error carrying the validation message.                                  *)
C13_ValidationFailureAborts ==
    \A j \in Jobs :
        ValidationFailed(io[j]) =>
            /\ io[j] = <<Get(SeedUrl, FALSE)>>
            /\ files[j] = {}
            /\ \A i \in 1..Len(JOB_STORE[j].events) :
                 IsStage(JOB_STORE[j].events[i]) =>
                     JOB_STORE[j].events[i].name \in {"start", "validate_url", "error"}
            /\ JOB_STORE[j].status \in {"running", "error"}
            /\ JOB_STORE[j].error \in {Null, Some("Invalid URL")}
            /\ pc[j] = "done" =>
                 JOB_STORE[j].status = "error" /\ JOB_STORE[j].error = Some("Invalid URL")

(* C13 witness: a thread has ended after a failed validation *)
C13_Witness ==
    \E j \in Jobs : ValidationFailed(io[j]) /\ pc[j] = "done" /\ JOB_STORE[j].status = "error"

IsAssetGet(op) == Len(op) = 3 /\ Len(op[2]) = 3

(* The fetches of manifest entries by the thread of job j, in order *)
AssetGets(j) == SelectSeq(io[j], IsAssetGet)

(* C14 as claimed: a failed fetch of a manifest entry never aborts the      *)
(* batch.  The entries are fetched in manifest order, each once, whatever  *)
(* fetches failed before; an entry whose fetch failed has no file in the   *)
(* output tree; a complete job has attempted every entry; and a thread     *)
(* that met no other failure than failed fetches ends with the job         *)
(* complete.                                                               *)
C14_FetchFailureNeverAborts ==
    \A j \in Jobs :
        LET gets == AssetGets(j) IN
        /\ \A i \in 1..Len(gets) : gets[i][2] = AssetUrl(j, manifest[j], i)
        /\ \A i \in 1..Len(gets) : ~gets[i][3] => i \notin files[j]
        /\ JOB_STORE[j].status = "complete" => Len(gets) = Len(manifest[j])
        /\ (pc[j] = "done" /\ JOB_STORE[j].error = Null) => JOB_STORE[j].status = "complete"

(* The job exists, is complete and has an archive *)
Ready(job_id) ==
    /\ job_id \in Jobs
    /\ JOB_STORE[job_id].status = "complete"
    /\ JOB_STORE[job_id].archive_path # Null

(* C15: GET /exports/{job_id}/download sends the archive if and only if the *)
(* job is complete and has an archive, and answers 404 otherwise; once a   *)
(* job is so it stays so, hence after a snapshot with file_ready = TRUE    *)
(* every download of the job succeeds; and a snapshot whose status is not  *)
(* complete has file_ready = FALSE.                                        *)
C15_DownloadIffReady ==
    /\ [](resp.endpoint = "progress" /\ resp.code = 200 =>
            /\ resp.body.file_ready => Ready(resp.job_id)
            /\ resp.body.status # "complete" => ~resp.body.file_ready)
    /\ [](dl # Null => JOB_STORE[dl[1]].archive_path # Null)
    /\ [][/\ \A j \in Jobs : Ready(j) => Ready(j)'
          /\ (dl = Null /\ dl' = Null /\ resp' # resp /\ resp'.endpoint = "download") =>
                resp'.code = 404 /\ ~Ready(resp'.job_id)
          /\ (dl # Null /\ dl' = Null) =>
                /\ resp'.endpoint = "download" /\ resp'.job_id = dl[1]
                /\ IF Ready(dl[1])
                   THEN resp'.code = 200 /\ resp'.file = JOB_STORE[dl[1]].archive_path
                   ELSE resp'.code = 404]_vars

(* C15 witness: a download was answered with the archive of a complete job *)
C15_Witness ==
    /\ resp.endpoint = "download"
    /\ resp.code = 200
    /\ Ready(resp.job_id)

(* ---- properties of the crawl ---- *)

(* The normalized form of a URL: scheme, host and path, without trailing    *)
(* slash, query or fragment                                                *)
Norm(u) == Url(u.scheme, u.host, u.path, FALSE, FALSE)

Range(q) == {q[i] : i \in 1..Len(q)}

(* The fetch of the page was answered, and with an HTML page *)
GotPage(g) == g.ok /\ scan_site.pages[g.url.path].content_type = "text/html"

(* C16 as claimed: during one crawl at most one page fetch is issued per    *)
(* normalized URL, the seed's included, and html, also as returned, holds  *)
(* no normalized URL twice.                                                *)
C16_VisitedOnce ==
    /\ \A i, k \in 1..Len(page_gets) :
          i # k => Norm(page_gets[i].url) # Norm(page_gets[k].url)
    /\ \A i, k \in 1..Len(html) : i # k => Norm(html[i]) # Norm(html[k])
    /\ scan_result # Null =>
          \A i, k \in 1..Len(scan_result[1].html) :
              i # k => Norm(scan_result[1].html[i]) # Norm(scan_result[1].html[k])

(* The normalized URLs whose page the crawl fetched and found to be HTML *)
PagesGot == {Norm(g.url) : g \in {x \in Range(page_gets) : GotPage(x)}}

(* The normalized same-host URLs that the anchors of a fetched page lead to *)
LinkedFrom(n) ==
    {Norm(urljoin(n, href)) : href \in {h \in scan_site.pages[n.path].links : h.host = base_domain}}

RECURSIVE ReachableFrom(_)
(* The least set of normalized URLs that holds R and is closed under the    *)
(* anchors of the pages fetched                                            *)
ReachableFrom(R) ==
    LET more == R \cup UNION {LinkedFrom(n) : n \in R \cap PagesGot}
    IN  IF more = R THEN R ELSE ReachableFrom(more)

(* What the fetch of a URL gave in this crawl: a page or nothing *)
GotPageAt(u) == \E g \in Range(page_gets) : g.url = u /\ GotPage(g)

RECURSIVE Worklist(_, _, _)
(* The pages found by a traversal with an explicit worklist and a visited   *)
(* set that meets the same answers as the crawl did                        *)
Worklist(todo, seen, found) ==
    IF todo = {} THEN found
    ELSE LET u == CHOOSE x \in todo : TRUE
             current_url == rstrip(u)
         IN  IF current_url \in seen THEN Worklist(todo \ {u}, seen, found)
             ELSE IF ~GotPageAt(current_url)
             THEN Worklist(todo \ {u}, seen \cup {current_url}, found)
             ELSE Worklist((todo \ {u}) \cup
                               {normalized_url(urljoin(current_url, h)) :
                                   h \in {x \in scan_site.pages[current_url.path].links :
                                             x.host = base_domain}},
                           seen \cup {current_url}, found \cup {current_url})

(* The manifest of a set of pages *)
ManifestOf(found) ==
    LET Of(b) == UNION {Collected(p, scan_site.pages[p.path].refs, b) : p \in found}
    IN  [html |-> sorted_set(found), css |-> sorted_set(Of("css")), js |-> sorted_set(Of("js")),
         images |-> sorted_set(Of("images")), media |-> sorted_set(Of("media"))]

(* C17 as claimed: the html that scan_html returns is exactly the set of    *)
(* the normalized same-host URLs reachable from the seed through the       *)
(* anchors of pages that were fetched and were HTML, each once; and the    *)
(* manifest is the one of a traversal with a worklist and a visited set.   *)
C17_ManifestIsReachableSet ==
    scan_result # Null =>
        /\ Range(scan_result[1].html) = ReachableFrom({Norm(scan_url)}) \cap PagesGot
        /\ Len(scan_result[1].html) = Cardinality(Range(scan_result[1].html))
        /\ scan_result[1] = ManifestOf(Worklist({scan_url}, {}, {}))

(* The URLs a crawl of the site can be asked for: the seed and the anchors  *)
(* of the pages that stay on its host, as recursive_scan writes them        *)
CrawlUrls ==
    {rstrip(scan_url)} \cup
    {rstrip(normalized_url(urljoin(scan_url, h))) :
        h \in {x \in UNION {scan_site.pages[p].links : p \in Paths} : x.host = base_domain}}

(* The most anchors a page of the site holds *)
MostLinks ==
    CHOOSE n \in 0..Cardinality(Hrefs(scan_site.host)) :
        /\ \A p \in Paths : Cardinality(scan_site.pages[p].links) <= n
        /\ \E p \in Paths : Cardinality(scan_site.pages[p].links) = n

RECURSIVE StackWork(_)
(* The steps the frames of a stack still have before them if no page is     *)
(* fetched: a call at its entry returns, a call in its loop takes each     *)
(* remaining anchor, which may start a call, and returns                   *)
StackWork(q) ==
    IF q = <<>> THEN 0
    ELSE (IF q[1].phase = "entry" THEN 1 ELSE 1 + 2 * Cardinality(q[1].links)) + StackWork(Tail(q))

(* A natural number that bounds the steps a crawl still has before it: the  *)
(* URLs not yet visited, each worth the loop of a page with the most       *)
(* anchors, the work of the stack, and the return of scan_html             *)
Variant ==
    (2 * MostLinks + 1) * Cardinality(CrawlUrls \ visited) + StackWork(stack)
    + (IF scan_result = Null THEN 1 ELSE 0)

ManifestsNow ==
    {[html |-> Range(html), files |-> UNION {assets[b] : b \in Buckets}]} \cup
    (IF scan_result = Null THEN {}
     ELSE {[html |-> Range(scan_result[1].html),
            files |-> Range(scan_result[1].css) \cup Range(scan_result[1].js)
                      \cup Range(scan_result[1].images) \cup Range(scan_result[1].media)]})

(* C19 as claimed: every URL of css, js, images and media passed            *)
(* is_webflow_asset_url, every URL of html has the host of the seed, and   *)
(* no URL is both in html and in an asset category.                        *)
C19_ManifestInvariant ==
    \A m \in ManifestsNow :
        /\ \A u \in m.files : is_webflow_asset_url(u)
        /\ \A u \in m.html : u.host = base_domain
        /\ m.html \cap m.files = {}

(* The URLs that the anchors of a page lead recursive_scan to *)
FollowedFrom(current_url) ==
    {rstrip(normalized_url(urljoin(current_url, h))) :
        h \in {x \in scan_site.pages[current_url.path].links : x.host = base_domain}}

(* The anchors of the pages in html that lead to a URL *)
AnchorsTo(u) ==
    {<<p, h>> \in Range(html) \X Hrefs(scan_site.host) :
        /\ h \in scan_site.pages[p.path].links
        /\ h.host = base_domain
        /\ rstrip(normalized_url(urljoin(p, h))) = u}

C21_FollowInternalLinksFlag ==
    (/\ Clear \in Range(cli_io)
     /\ cli_pc \notin {"clear_output_folder", "scan_html"}
     /\ cli_exc # Some(Exception("OSError", "OSError")))
        => Crawl \in Range(cli_io)

(* C22 as claimed: no exception leaves main: a failure of the pipeline is   *)
(* printed and main returns.                                               *)
C22_MainNeverRaises == cli_pc # "traceback"

(* C26 as claimed: the classifier accepts exactly the URLs whose scheme,    *)
(* https standing for none before "//", is http or https and whose host is *)
(* in the allow-list or ends with one of the suffixes, whatever userinfo   *)
(* or port the URL carries.                                                *)
C26_ClassifierByHostAndScheme ==
    (rw_call # Null /\ Call.fn = "is_webflow_asset_url" /\ rw_returns # <<>>) =>
        LET normalized == normalize_asset_url(Call.url)
        IN  rw_returns[1] =
                (/\ normalized.scheme \in {"http", "https"}
                 /\ \/ normalized.host \in WEBFLOW_ASSET_HOSTS
                    \/ \E suffix \in WEBFLOW_ASSET_HOST_SUFFIXES : endswith(normalized.host, suffix))

(* The words of an entry of a srcset value: its URL, if it has one, and the *)
(* words of its descriptor                                                 *)
Words(entry) == SelectSeq(entry, LAMBDA c : c # Sp)

(* C25 as claimed: the value that rewrite_srcset returns has as many        *)
(* entries between commas as the value given, in the same order, each with *)
(* the words of its descriptor unchanged and with the URL it had, or, for  *)
(* the URL of a platform asset with a file name, the local path of it.     *)
C25_SrcsetEntriesPreserved ==
    (rw_call # Null /\ Call.fn = "rewrite_srcset" /\ rw_returns # <<>>) =>
        LET given == split(Call.value, Comma)
            got == split(rw_returns[1], Comma)
        IN  /\ Len(got) = Len(given)
            /\ \A i \in 1..Len(given) :
                  /\ Len(Words(got[i])) = Len(Words(given[i]))
                  /\ \A k \in 2..Len(Words(given[i])) : Words(got[i])[k] = Words(given[i])[k]
                  /\ Words(given[i]) # <<>> =>
                        Words(got[i])[1] = rewrite_url(<<Words(given[i])[1]>>, Call.asset_type)[1]

(* C24: process_html on a file that it has rewritten changes the value of   *)
(* no attribute.                                                           *)
C24_RewriteIdempotent ==
    (rw_call # Null /\ Call.fn = "download_file" /\ Len(rw_returns) = 2) =>
        rw_returns[2].document = rw_returns[1].document

(* C24 witness: the second run has returned on a document whose first run   *)
(* rewrote a src and an entry of a srcset and left another entry as it was *)
C24_Witness ==
    /\ rw_call # Null
    /\ Call.fn = "download_file"
    /\ Len(rw_returns) = 2
    /\ \E i, k \in 1..Len(Call.document) :
          /\ Call.document[i].attribute = "src"
          /\ rw_returns[1].document[i].value # Call.document[i].value
          /\ Call.document[k].attribute = "srcset"
          /\ Len(split(Call.document[k].value, Comma)) = 2
          /\ rw_returns[1].document[k].value # Call.document[k].value
          /\ \E n \in 1..2 : Words(split(rw_returns[1].document[k].value, Comma)[n])[1]
                                  = Words(split(Call.document[k].value, Comma)[n])[1]

(* os.path.join of the folder of a page and a rewritten value, as a browser *)
(* that opens the page from the output folder resolves it                  *)
Resolved(page_file, local_path) == File(page_file.dir \o local_path.dir, local_path.path, "")

(* The URLs of an attribute, place by place: the URL of a src, href or      *)
(* content, and the URL of each entry of a srcset                          *)
UrlsOf(a) ==
    IF a.attribute = "srcset"
    THEN [n \in 1..Len(split(a.value, Comma)) |-> Words(split(a.value, Comma)[n])]
    ELSE <<a.value>>

(* C23 as claimed: every URL that process_html rewrote in a page, resolved  *)
(* against the folder of the file of that page, is the place where         *)
(* download_assets stores the asset that the crawler found at that         *)
(* reference.                                                              *)
C23_RewrittenPathIsLocalCopy ==
    (rw_call # Null /\ Call.fn = "download_file" /\ rw_returns # <<>>) =>
        \A i \in 1..Len(Call.document) :
            LET given == UrlsOf(Call.document[i])
                got == UrlsOf(rw_returns[1].document[i])
            IN  Len(got) = Len(given) =>
                    \A n \in 1..Len(given) :
                        (given[n] # <<>> /\ got[n][1] # given[n][1]) =>
                            Some(Resolved(rw_returns[1].output_path, got[n][1]))
                                = relative_path(Bucket(Call.document[i].tag),
                                                normalize_asset_url(urljoin(Call.url, given[n][1])))

RECURSIVE Substituted(_)
(* The text in which every match of line 699 that is the URL of a platform  *)
(* asset with a file name stands replaced by its relative path             *)
Substituted(content) ==
    IF content = <<>> THEN <<>>
    ELSE LET n == IF /\ content[1] \in {Scheme("http"), Scheme("https")}
                     /\ Len(content) > 1
                     /\ IsSchemeLess(content[2])
                  THEN 2
                  ELSE IF IsSchemeLess(content[1]) THEN 1 ELSE 0
             raw_url == SubSeq(content, 1, n)
         IN  IF n > 0 /\ raw_url \in assets_map_keys({raw_url})
             THEN assets_map(raw_url) \o Substituted(SubSeq(content, n + 1, Len(content)))
             ELSE <<content[1]>> \o Substituted(Tail(content))

(* C29 as claimed: the text that process_css writes back holds, in place of *)
(* every occurrence of every matched platform-asset URL, exactly its       *)
(* relative path, and is the same in whatever order the matched URLs are   *)
(* replaced.                                                               *)
C29_CssReplacementComplete ==
    (rw_call # Null /\ Call.fn = "process_css" /\ rw_returns # <<>>) =>
        /\ rw_returns[1].content = Substituted(Call.content)
        /\ \A items \in Orders(assets_map_keys(findall(Call.content))) :
              replace_all(Call.content, items) = rw_returns[1].content

(* C27 as claimed: the archive descriptor of a job is set only once         *)
(* progress.json is in the archive, and the size it records is the size of *)
(* the archive with progress.json; so a job whose embedding of             *)
(* progress.json failed has no descriptor.                                 *)
C27_ProgressEmbeddedBeforeReady ==
    \A j \in Jobs :
        JOB_STORE[j].archive_path # Null =>
            /\ archive[j] # Null
            /\ archive[j][1].progress
            /\ JOB_STORE[j].archive_size = Some(getsize(archive[j][1]))

(* The number of entries of a sequence that are e *)
Count(q, e) == Cardinality({i \in 1..Len(q) : q[i] = e})

(* C28: a job that was created reaches complete or error, and so leaves     *)
(* queued, whatever the client does, and its thread runs the pipeline      *)
(* once: one validation of the seed, one clearing of the output folder,    *)
(* one crawl.                                                              *)
C28_JobReachesTerminalStatus ==
    /\ \A j \in JobIds :
          (j \in Jobs) ~> (j \in Jobs /\ JOB_STORE[j].status \in {"complete", "error"})
    /\ [](\A j \in JobIds :
            /\ Count(io[j], Get(SeedUrl, TRUE)) + Count(io[j], Get(SeedUrl, FALSE)) <= 1
            /\ Count(io[j], Clear) <= 1
            /\ Count(io[j], Crawl) <= 1)

(* C28 witness: a job that was never polled is complete, and its thread has *)
(* validated the seed, cleared the folder and crawled                      *)
C28_Witness ==
    \E j \in Jobs :
        /\ JOB_STORE[j].status = "complete"
        /\ pc[j] = "done"
        /\ resp.endpoint = "POST /exports"
        /\ Count(io[j], Get(SeedUrl, TRUE)) = 1
        /\ Count(io[j], Clear) = 1
        /\ Count(io[j], Crawl) = 1

(* The positions of a job's thread outside _execute_export_with_progress:   *)
(* before line 356 and after line 413                                      *)
OutsidePipeline ==
    {"none", "addHandler", "set_running", "stage_start", "setLevel", "stage_zipping", "write_archive",
     "stage_zipped", "stage_complete", "embed_progress", "except_log", "job_set_error", "stage_error",
     "job_set_status_error", "removeHandler", "done"}

(* C30 as claimed: whenever no job is executing its pipeline the level of   *)
(* the shared exporter logger is the level it had before any job started,  *)
(* and a silent job records no info-level log event and no download event, *)
(* alone or beside other jobs.                                             *)
C30_LogLevelJobScoped ==
    /\ (\A j \in JobIds : pc[j] \in OutsidePipeline) => level = NOTSET
    /\ \A j \in Jobs :
          request(j).silent =>
              \A i \in 1..Len(JOB_STORE[j].events) :
                  /\ JOB_STORE[j].events[i].type = "log" => JOB_STORE[j].events[i].level # "info"
                  /\ JOB_STORE[j].events[i].type # "download"

(* The first half of C30 alone: the level is restored *)
LevelRestored ==
    (\A j \in JobIds : pc[j] \in OutsidePipeline) => level = NOTSET

(* The second half of C30 alone, of the events a silent job's own thread    *)
(* produced                                                                *)
SilentJobLogsNoInfo ==
    \A j \in Jobs :
        request(j).silent =>
            \A i \in 1..Len(JOB_STORE[j].events) :
                JOB_STORE[j].events[i].by = j =>
                    /\ JOB_STORE[j].events[i].type = "log" => JOB_STORE[j].events[i].level # "info"
                    /\ JOB_STORE[j].events[i].type # "download"


(* The fetches of assets among the entries of io: every requests.get but    *)
(* the validation of the seed                                              *)
IsAssetFetch(e) == Len(e) = 3 /\ e[1] = "get" /\ e[2] # SeedUrl

(* The download event at place s of a job's events marks source with status *)
IsDownload(events, s, source, status) ==
    /\ events[s].type = "download"
    /\ events[s].source = source
    /\ events[s].status = status

(* C32 as claimed: for every asset fetch of a job that is not silent a      *)
(* download event with status start for that source is recorded, and when  *)
(* the job is complete every fetch that succeeded has, later in the job's  *)
(* events, a download event with status complete for the same source.      *)
C32_DownloadEventsPaired ==
    \A j \in Jobs :
        ~request(j).silent =>
            LET events == JOB_STORE[j].events IN
            \A i \in 1..Len(io[j]) :
                IsAssetFetch(io[j][i]) =>
                    /\ \E s \in 1..Len(events) : IsDownload(events, s, io[j][i][2], "start")
                    /\ (io[j][i][3] /\ JOB_STORE[j].status = "complete") =>
                           \E s, c \in 1..Len(events) :
                               /\ s < c
                               /\ IsDownload(events, s, io[j][i][2], "start")
                               /\ IsDownload(events, c, io[j][i][2], "complete")

(* What the code does instead for the entries of the manifest: the start    *)
(* event of every fetch is recorded before the fetch, and no complete      *)
(* event ever                                                              *)
ManifestEntryStartedOnly ==
    \A j \in Jobs :
        ~request(j).silent =>
            LET events == JOB_STORE[j].events IN
            \A i \in 1..Len(io[j]) :
                (IsAssetFetch(io[j][i]) /\ io[j][i][2][2] # "cssimage") =>
                    /\ \E s \in 1..Len(events) : IsDownload(events, s, io[j][i][2], "start")
                    /\ \A c \in 1..Len(events) : ~IsDownload(events, c, io[j][i][2], "complete")

(* and for the images of a stylesheet: no start event, and the complete     *)
(* event of the fetches that succeeded                                     *)
CssImageCompleteOnly ==
    \A j \in Jobs :
        ~request(j).silent =>
            LET events == JOB_STORE[j].events IN
            \A i \in 1..Len(io[j]) :
                (IsAssetFetch(io[j][i]) /\ io[j][i][2][2] = "cssimage") =>
                    /\ \A s \in 1..Len(events) : ~IsDownload(events, s, io[j][i][2], "start")
                    /\ io[j][i][3] <=> \E c \in 1..Len(events) : IsDownload(events, c, io[j][i][2], "complete")


(* C31 as claimed: no two writes of a run of download_assets for different  *)
(* URLs go to one path: two entries of the manifest, and an entry and an   *)
(* image that process_css fetched for another URL, are written to distinct *)
(* files.                                                                  *)
C31_PathsInjective ==
    (rw_call # Null /\ Call.fn = "download_assets") =>
        \A i, k \in 1..Len(written_files) :
            written_files[i].path = written_files[k].path =>
                normalize_asset_url(written_files[i].url) = normalize_asset_url(written_files[k].url)

(* C31 for the pages of PageUrls alone, none of which has index as its     *)
(* last segment: two pages are written to distinct files                   *)
PagePathsInjective ==
    (rw_call # Null /\ Call.fn = "download_assets") =>
        \A i, k \in 1..Len(written_files) :
            (/\ written_files[i].path = written_files[k].path
             /\ written_files[i].path.ext = ".html") =>
                written_files[i].url = written_files[k].url

(* An entry of the manifest is written over the image that process_css      *)
(* fetched for another URL                                                 *)
EntryOverwritesCssImage ==
    /\ rw_call # Null
    /\ Call.fn = "download_assets"
    /\ \E i, k \in 1..Len(written_files) :
          /\ i < k
          /\ written_files[i].by = "process_css"
          /\ written_files[k].by = "download_file"
          /\ written_files[i].path = written_files[k].path
          /\ normalize_asset_url(written_files[i].url) # normalize_asset_url(written_files[k].url)

(* process_css writes no file that exists (line 721) *)
CssRewriterOverwritesNothing ==
    (rw_call # Null /\ Call.fn = "download_assets") =>
        \A i, k \in 1..Len(written_files) :
            (i < k /\ written_files[i].path = written_files[k].path) =>
                written_files[k].by = "download_file"

====
